---- MODULE Spec2Model ----
(***************************************************************************)
(* cyanoacrylate: the analysis session returned by startAnalysis() with    *)
(* its traffic collection (mitmproxy) and emulator handling, and the       *)
(* AndroidEmulator handle with its restart/rebuild escalation.             *)
(*                                                                         *)
(* Every public call of the session is one action that runs the whole      *)
(* handler; what the device, the proxy process and the emulator process    *)
(* answer is drawn from small sets.  The AndroidEmulator handle is modelled *)
(* at the granularity of its suspension points (await), because its exit   *)
(* listeners and failure callbacks interleave with start().                *)
(***************************************************************************)
EXTENDS Integers, Sequences, FiniteSets, TLC

\* ------------------------------------------------------------------ bounds
\* Number of mitmproxy processes one run may spawn.
MaxProxies == 2
\* Longest app list of a collection scope.
MaxApps == 2
MaxCapabilities == 2
MaxEvents == 3
\* Number of emulator processes the session may spawn.
MaxEmuProcs == 3
\* Largest restart limit and rebuild limit an AndroidEmulator is configured with.
MaxRestartLimit == 1
MaxRebuildsLimit == 1
\* Number of processes one AndroidEmulator handle may launch.
MaxLaunches == 4
\* Number of start() calls scheduled by 'exit' listeners that may be in flight.
MaxScheduled == 1
\* Largest value of failedStarts that fail() drives the counter to.
MaxFailedStarts == 2
\* Number of 'SIGINT' listeners that the caller's program registers.
MaxListeners == 2

\* ------------------------------------------------------------- the session
VARIABLES
    platformKind,                   \* analysisOptions.platform
    runTarget,                      \* analysisOptions.runTarget
    targetOptions,                  \* "none" | "named" | "create": emulatorName / createEmulator given
    trafficCollectionInProgress,    \* [inProgress, mode, apps]
    mitmproxyState,                 \* [defined, proc, wireguardConf]
    proxyProcs,                     \* mitmproxy process id -> "unspawned" | "alive" | "closed"
    caInstalled,                    \* trust anchor present on the device
    deviceProxy,                    \* route the device was told to use
    emulator,                       \* EmulatorState: [defined, proc, resetSnapshotName, createdByLib]
    emuProcs,                       \* emulator process id -> "unspawned" | "running" | "exitedCode" | "exitedSignal"
    appAnalysis,                    \* [active, app, inProgressTrafficCollectionName]
    lastCall                        \* what the last public call did and how it ended

sessionVars == <<platformKind, runTarget, targetOptions, trafficCollectionInProgress,
                 mitmproxyState, proxyProcs, caInstalled, deviceProxy, emulator,
                 emuProcs, appAnalysis, lastCall>>

\* --------------------------------------------------- the AndroidEmulator handle
VARIABLES
    restartLimit,       \* AndroidEmulator.restartLimit (attemptRestarts)
    rebuildsLimit,      \* AndroidEmulator.rebuildsLimit (attemptRebuilds)
    managed,            \* AndroidEmulator.managed; createOptions is defined iff managed
    androidEmulator,    \* the fields of the handle: failedStarts, rebuilds, hasExited,
                        \* proc (_proc, 0 = undefined), resetSnapshotName, lastError,
                        \* abort (the reason of _abortController.signal, "none" if
                        \* it is not aborted)
    emulatorProcs,      \* process id -> [st, sig, killed, listening, restartOnExit]
    calls,              \* the invocations in flight: 0 is the caller, 1.. are the
                        \* start() calls made by 'exit' listeners
    history             \* launches so far; crashLoop: every process so far ended by a
                        \* crash whose failure callback ran before the next start();
                        \* lastStart: the start() call that ended in the last step

\* ------------------------------------------------- the host's virtual devices
VARIABLES
    emulatorList,       \* listEmulators(): the names of the virtual devices on the host
    resolved,           \* history: the last fromRunTarget() of a managed emulator
    process             \* the Node.js process: [sigint, exited], sigint being the
                        \* listeners of 'SIGINT' in the order of their registration

hostVars == <<emulatorList, resolved, process>>

handleVars == <<restartLimit, rebuildsLimit, managed, androidEmulator, emulatorProcs,
                calls, history>>

emulatorVars == <<handleVars, hostVars>>

Apps == {"app.a", "app.b"}
CollectionNames == {"undefined", "first"}

\* ------------------------------------------------- values of the session
NoCollection == [inProgress |-> FALSE, mode |-> "none", apps |-> <<>>]
Collection(options) == [inProgress |-> TRUE, mode |-> options.mode, apps |-> options.apps]

AllApps == [mode |-> "all-apps", apps |-> <<>>]
TrafficCollectionOptions ==
    {AllApps}
        \cup {[mode |-> m, apps |-> <<a>>] : m \in {"allowlist", "denylist"}, a \in Apps}

\* startTrafficCollection() called without options.
NoOptions == [mode |-> "undefined", apps |-> <<>>]
\* options = options ?? { mode: 'all-apps' }
Defaulted(options) == IF options = NoOptions THEN AllApps ELSE options

\* Every scope with an app list of at most MaxApps entries, and no options at all.
AppLists == UNION {[1..n -> Apps] : n \in 0..MaxApps}
AllScopes ==
    {AllApps, NoOptions} \cup [mode : {"allowlist", "denylist"}, apps : AppLists]

\* The [Interface] section of a WireGuard configuration as js-ini parses it:
\* a function from the keys that are present to their values.
EmptyIface == [k \in {} |-> <<>>]
NullConf == [isNull |-> TRUE, iface |-> EmptyIface]
WireguardConfs ==
    {NullConf,
     [isNull |-> FALSE, iface |-> [k \in {"ExcludedApplications"} |-> <<"app.b">>]]}

\* events is mitmproxyState.events (the status of each event); listeners are the 'data'
\* listeners on proc.stdout in the order of their registration; emitted is the history
\* of what the process wrote.
NoMitmproxy == [defined |-> FALSE, proc |-> 0, wireguardConf |-> NullConf,
                events |-> <<>>, listeners |-> <<>>, emitted |-> <<>>]

NoRoute == [kind |-> "none", iface |-> EmptyIface]

\* MitmproxyServerSpec: only a wireguard server carries a configuration.
MitmproxyServers ==
    [type : {"wireguard"}, isRunning : BOOLEAN, wireguardConf : WireguardConfs]
        \cup [type : {"regular"}, isRunning : {TRUE}, wireguardConf : {NullConf}]

\* The server lists a proxyChanged event may carry (the empty list stands for
\* "no proxyChanged event arrives before the timeout").
ServerLists ==
    {<<>>} \cup {<<s>> : s \in MitmproxyServers}
           \cup {<<s, t>> : s \in MitmproxyServers, t \in MitmproxyServers}

NoEmulator == [defined |-> FALSE, proc |-> 0, resetSnapshotName |-> FALSE, createdByLib |-> FALSE]

\* A key of res.traffic: the name given by the caller, or new Date().toISOString().
\* The model does not tell two timestamps apart.
CollectionName(name) == [name |-> name, iso |-> FALSE]
Timestamp == [name |-> "undefined", iso |-> TRUE]
NoName == CollectionName("undefined")

\* res is [app, traffic, mitmproxyEvents]; an assignment to res.traffic is recorded in
\* lastCall.stored.  scoped is history: the key given to the app-scoped
\* startTrafficCollection() that started the open collection, NoName if there is none.
\* appIdOrPath (its kind), appIdProvided and noSigint are the values that the closures of
\* the analysis keep.
NoAppAnalysis == [active |-> FALSE, app |-> "none", inProgressTrafficCollectionName |-> NoName,
                  mitmproxyEvents |-> <<>>, scoped |-> NoName,
                  appIdOrPath |-> "none", appIdProvided |-> FALSE, noSigint |-> FALSE]

\* The history of which call spawned the proxy, after a session call that spawned one
\* or that closed the collection.
SessionSpawn(spawned) == [appAnalysis EXCEPT !.scoped = IF spawned THEN NoName ELSE @]

\* An emulator name: `cyanoacrylate-${key}-${optionsHash}${'-headless' or ''}` has the
\* four parts; any other name has an empty prefix and no hash.
EmulatorName(prefix, key, hash, suffix) ==
    [prefix |-> prefix, key |-> key, hash |-> hash, suffix |-> suffix]

ForeignEmulator == EmulatorName("", "Pixel_6_API_33", 0, "")
\* A copy that the user made of a device of the library: its name is the name of the
\* device of key "a" after other text.
CopiedEmulator == EmulatorName("Copy_of_cyanoacrylate-", "a", 1, "")
\* The device that the library created for the key "cyanoacrylate-a".
NestedKeyEmulator == EmulatorName("cyanoacrylate-", "cyanoacrylate-a", 1, "")

NoResolve == [defined |-> FALSE, key |-> "none", emulatorOptions |-> "none",
              honeyData |-> "none", capabilities |-> <<>>,
              name |-> EmulatorName("", "none", 0, ""),
              outcome |-> "none", reused |-> {}, created |-> {}, deleted |-> 0]

NoCall == [op |-> "none", outcome |-> "none", proxySpawns |-> 0, routeSets |-> 0,
           routeRemovals |-> 0, caRemovals |-> 0, emuLaunches |-> 0, emuKills |-> 0,
           proxyKills |-> 0, liveEmuAtWait |-> 0, hadEmulator |-> FALSE,
           deadAtEntry |-> FALSE, trace |-> <<>>, platformResets |-> 0,
           forcedEnsures |-> 0, errors |-> <<>>, stored |-> <<>>, input |-> <<>>,
           uninstalled |-> <<>>, installed |-> <<>>]

LiveProxies == {p \in 1..MaxProxies : proxyProcs[p] = "alive"}
LiveEmulators == {p \in 1..MaxEmuProcs : emuProcs[p] = "running"}
FreshProxy == CHOOSE p \in 1..MaxProxies : proxyProcs[p] = "unspawned" /\
                  \A q \in 1..MaxProxies : proxyProcs[q] = "unspawned" => p <= q
FreshEmuProc == CHOOSE p \in 1..MaxEmuProcs : emuProcs[p] = "unspawned" /\
                  \A q \in 1..MaxEmuProcs : emuProcs[q] = "unspawned" => p <= q

\* ------------------------------------------------------- startTrafficCollection
\* The condition of the second awaitMitmproxyEvent.
RoutingConfigured(servers) ==
    \E i \in 1..Len(servers) :
        /\ servers[i].type = (IF platformKind = "android" THEN "wireguard" ELSE "regular")
        /\ servers[i].isRunning

\* The for loop over msg.context.servers: the first server that is not skipped.
\* A server is skipped only if it is no wireguard server and has no configuration.
Skipped(server) == server.type # "wireguard" /\ server.wireguardConf.isNull
FirstServerConf(servers) ==
    LET kept == {i \in 1..Len(servers) : ~Skipped(servers[i])}
        first == CHOOSE i \in kept : \A j \in kept : i <= j
    IN  servers[first].wireguardConf

\* ------------------------------------------------------------ mitmproxy events
\* The listeners that startTrafficCollection() registers: the one that records the
\* events, the waiter for 'running' and the waiter for the routing configuration.
StartListeners == <<"events", "running", "proxyChanged">>

\* A message: its status and, for proxyChanged, whether a server of the wanted type runs.
Message(status, matches) == [status |-> status, matches |-> matches]

\* callback(msg) === 'end': a waiter of awaitMitmproxyEvent ends when its condition
\* holds; the recording callback never ends.
Ends(listener, msg) ==
    /\ listener # "events"
    /\ msg.status = listener
    /\ listener = "proxyChanged" => msg.matches

\* proc.stdout emits a line with one event: each registered listener is called, and a
\* listener whose callback ends is removed.
Deliver(state, msg) ==
    [state EXCEPT
        !.events = IF \E i \in 1..Len(state.listeners) : state.listeners[i] = "events"
                   THEN Append(@, msg.status) ELSE @,
        !.listeners = SelectSeq(@, LAMBDA l : ~Ends(l, msg)),
        !.emitted = Append(@, msg.status)]

\* options.apps.join(', '): the value is one string, written here as the sequence of its
\* pieces (the ids and the separators between them).
RECURSIVE Join(_)
Join(apps) ==
    IF Len(apps) = 0 THEN <<>>
    ELSE IF Len(apps) = 1 THEN <<apps[1]>>
    ELSE <<apps[1], ", ">> \o Join(Tail(apps))

\* parseIni, the rewrite of the Interface section by the collection scope, stringifyIni.
SetKey(iface, key, value) ==
    [k \in (DOMAIN iface) \cup {key} |-> IF k = key THEN value ELSE iface[k]]
\* The rewrite with the two keys exchanged.
ScopedIfaceSwapped(iface, options) ==
    IF options.mode = "allowlist" THEN SetKey(iface, "ExcludedApplications", Join(options.apps))
    ELSE IF options.mode = "denylist" THEN SetKey(iface, "IncludedApplications", Join(options.apps))
    ELSE iface
ScopedIface(iface, options) ==
    IF options.mode = "allowlist" THEN SetKey(iface, "IncludedApplications", Join(options.apps))
    ELSE IF options.mode = "denylist" THEN SetKey(iface, "ExcludedApplications", Join(options.apps))
    ELSE iface

\* The effects of startTrafficCollection on the device and the proxy, in the order of
\* its statements: line 449, lines 466-470, line 517 (Android) or 531 (iOS).
StartSequenceSpawnFirst == <<"spawn", "installCertificateAuthority", "setProxy">>
StartSequence == <<"installCertificateAuthority", "spawn", "setProxy">>

\* The effects of stopTrafficCollection in the order of its statements: the proxy's
\* 'close' (556), the dump file (562-563), setProxy(null) (570-572),
\* removeCertificateAuthority (573).
StopSequence == <<"close", "readHar", "setProxy(null)", "removeCertificateAuthority">>

\* The effects of seq that were performed, in order.
Performed(seq, done) == SelectSeq(seq, LAMBDA e : e \in done)

\* The guard testing the proxy state instead of the open collection.
StartRefusedIfProxyKnown == mitmproxyState.defined
\* if (trafficCollectionInProgress !== false) throw 'Cannot start new traffic collection...'
StartRefused == trafficCollectionInProgress.inProgress

\* The body of startTrafficCollection(options) for the call named op.  What the device
\* and the proxy process answer is drawn inside: caOk (installCertificateAuthority),
\* running (the 'running' event arrives in time), servers (the first proxyChanged
\* event that satisfies the waiter, if any) and setProxyOk (setProxy).
startTrafficCollection(op, given) ==
    LET call == [NoCall EXCEPT !.op = op]
        options == Defaulted(given)
    IN
    IF StartRefused
    THEN /\ lastCall' = [call EXCEPT !.outcome = "UsageStillRunning"]
         /\ UNCHANGED <<trafficCollectionInProgress, mitmproxyState, proxyProcs,
                        caInstalled, deviceProxy>>
    ELSE
    /\ trafficCollectionInProgress' = Collection(options)
    /\ \/ \* installCertificateAuthority rejects
          /\ lastCall' = [call EXCEPT !.outcome = "Error", !.errors = <<"Error">>]
          /\ UNCHANGED <<mitmproxyState, proxyProcs, caInstalled, deviceProxy>>
       \/ \E running \in BOOLEAN, servers \in ServerLists, setProxyOk \in BOOLEAN :
          LET proc == FreshProxy
              matched == RoutingConfigured(servers)
              conf == IF matched /\ platformKind = "android"
                      THEN FirstServerConf(servers) ELSE NullConf
              \* setProxy is called: on Android only with a configuration, on iOS always
              routes == matched /\ (platformKind = "ios" \/ ~conf.isNull)
          IN
          /\ \E p \in 1..MaxProxies : proxyProcs[p] = "unspawned"
          /\ servers = <<>> \/ matched
          /\ routes \/ setProxyOk
          /\ caInstalled' = TRUE
          /\ proxyProcs' = [proxyProcs EXCEPT ![proc] = "alive"]
          /\ mitmproxyState' =
               LET spawned == [defined |-> TRUE, proc |-> proc, wireguardConf |-> conf,
                               events |-> <<>>, listeners |-> StartListeners,
                               emitted |-> <<>>]
                   started == IF running THEN Deliver(spawned, Message("running", FALSE))
                              ELSE spawned
               IN  IF servers # <<>>
                   THEN Deliver(started, Message("proxyChanged", matched))
                   ELSE started
          /\ deviceProxy' =
               IF routes /\ setProxyOk
               THEN IF platformKind = "android"
                    THEN [kind |-> "wireguard", iface |-> ScopedIface(conf.iface, options)]
                    ELSE [kind |-> "http", iface |-> EmptyIface]
               ELSE deviceProxy
          /\ lastCall' = [call EXCEPT
                            !.proxySpawns = 1,
                            !.trace = Performed(StartSequence,
                                          {"installCertificateAuthority", "spawn"}
                                              \cup (IF routes /\ setProxyOk THEN {"setProxy"}
                                                    ELSE {})),
                            !.routeSets = IF routes /\ setProxyOk THEN 1 ELSE 0,
                            \* what setProxy raised
                            !.errors = IF routes /\ ~setProxyOk THEN <<"Error">> ELSE <<>>,
                            !.outcome = IF routes /\ ~setProxyOk THEN "Error"
                                        ELSE IF ~matched \/ ~running THEN "TimeoutError"
                                        ELSE "ok"]

StartTrafficCollection ==
    \E options \in TrafficCollectionOptions :
        /\ startTrafficCollection("startTrafficCollection", options)
        /\ appAnalysis' = SessionSpawn(lastCall'.proxySpawns = 1)
        /\ UNCHANGED <<emulatorVars, platformKind, runTarget, targetOptions, emulator, emuProcs>>

\* startTrafficCollection(options) with any scope, or without options.
StartScopedTrafficCollection ==
    \E options \in AllScopes :
        /\ startTrafficCollection("startTrafficCollection", options)
        /\ appAnalysis' = SessionSpawn(lastCall'.proxySpawns = 1)
        /\ UNCHANGED <<emulatorVars, platformKind, runTarget, targetOptions, emulator, emuProcs>>

\* ------------------------------------------------------- stopTrafficCollection
\* The body of stopTrafficCollection() for the call named op.  har is what reading and
\* parsing the dump file gives; routeOk and caOk are the device's answers.
stopTrafficCollection(op, har, routeOk, caOk, names) ==
    LET call == [NoCall EXCEPT !.op = op] IN
    IF ~mitmproxyState.defined \/ ~trafficCollectionInProgress.inProgress
    THEN /\ lastCall' = [call EXCEPT !.outcome = "UsageNotRunning"]
         /\ UNCHANGED <<trafficCollectionInProgress, mitmproxyState, proxyProcs,
                        caInstalled, deviceProxy>>
    ELSE IF proxyProcs[mitmproxyState.proc] = "closed"
    THEN \* awaitProcessClose: the 'close' event has already been emitted
         /\ lastCall' = [call EXCEPT !.outcome = "hangs"]
         /\ UNCHANGED <<trafficCollectionInProgress, mitmproxyState, proxyProcs,
                        caInstalled, deviceProxy>>
    ELSE
    /\ proxyProcs' = [proxyProcs EXCEPT ![mitmproxyState.proc] = "closed"]
    /\ IF har # "ok"
       THEN /\ lastCall' = [call EXCEPT !.outcome = "HarError",
                                        !.trace = Performed(StopSequence, {"close"})]
            /\ UNCHANGED <<trafficCollectionInProgress, mitmproxyState, caInstalled, deviceProxy>>
       ELSE IF ~routeOk
       THEN /\ lastCall' = [call EXCEPT !.outcome = "Error",
                                        !.trace = Performed(StopSequence, {"close", "readHar"})]
            /\ UNCHANGED <<trafficCollectionInProgress, mitmproxyState, caInstalled, deviceProxy>>
       ELSE IF ~caOk
       THEN /\ deviceProxy' = NoRoute
            /\ lastCall' = [call EXCEPT !.outcome = "Error", !.routeRemovals = 1,
                                        !.trace = Performed(StopSequence,
                                                      {"close", "readHar", "setProxy(null)"})]
            /\ UNCHANGED <<trafficCollectionInProgress, mitmproxyState, caInstalled>>
       ELSE /\ deviceProxy' = NoRoute
            /\ caInstalled' = FALSE
            /\ trafficCollectionInProgress' = NoCollection
            /\ mitmproxyState' = NoMitmproxy
            /\ lastCall' = [call EXCEPT !.outcome = "ok", !.routeRemovals = 1,
                                        !.caRemovals = 1,
                                        \* res.traffic[inProgressTrafficCollectionName] = har
                                        !.stored = names,
                                        !.trace = Performed(StopSequence,
                                                      {"close", "readHar", "setProxy(null)",
                                                       "removeCertificateAuthority"})]

StopTrafficCollection ==
    \E har \in {"ok", "unreadable", "invalid"}, routeOk \in BOOLEAN, caOk \in BOOLEAN :
        /\ stopTrafficCollection("stopTrafficCollection", har, routeOk, caOk, <<>>)
        /\ appAnalysis' = SessionSpawn(lastCall'.outcome = "ok")
        /\ UNCHANGED <<emulatorVars, platformKind, runTarget, targetOptions, emulator, emuProcs>>

\* The mitmproxy process of the collection writes an event.
EventStatuses == {"clientConnected", "tlsFailed", "proxyChanged"}
ProxyEmits ==
    \E status \in EventStatuses, matches \in BOOLEAN :
        /\ mitmproxyState.defined
        /\ proxyProcs[mitmproxyState.proc] = "alive"
        /\ Len(mitmproxyState.emitted) < MaxEvents
        /\ matches => status = "proxyChanged"
        /\ mitmproxyState' = Deliver(mitmproxyState, Message(status, matches))
        /\ UNCHANGED <<emulatorVars, platformKind, runTarget, targetOptions, trafficCollectionInProgress,
                       proxyProcs, caInstalled, deviceProxy, emulator, emuProcs,
                       appAnalysis, lastCall>>

\* The mitmproxy process ends by itself.
ProxyExits ==
    \E p \in LiveProxies :
        /\ proxyProcs' = [proxyProcs EXCEPT ![p] = "closed"]
        /\ UNCHANGED <<emulatorVars, platformKind, runTarget, targetOptions, trafficCollectionInProgress,
                       mitmproxyState, caInstalled, deviceProxy, emulator, emuProcs,
                       appAnalysis, lastCall>>

\* ---------------------------------------------------------------- killProcess
\* How a process that is alive ends when killProcess() is applied to it: it dies from
\* the signal (exitCode stays null) or it handles the signal and exits with a code.
KillOutcomes == {"exitedSignal", "exitedCode"}

\* killProcess(proc) without its test of proc.
killProcessUnguarded(given, alive) == TRUE
\* killProcess(proc): if (proc) { proc.kill(); ... }.  A process is signalled iff one is
\* given and it is alive.
killProcess(given, alive) == given /\ alive

\* ---------------------------------------------------------------- ensureDevice
\* startEmulator(emulator): launches a new process for the existing EmulatorState and
\* stores it in emulator.proc.
startEmulator(procs) == [procs EXCEPT ![FreshEmuProc] = "running"]

\* startNewEmulator(targetOptions): creates the emulator if asked to and launches it.
startNewEmulator ==
    [defined |-> TRUE, proc |-> FreshEmuProc, resetSnapshotName |-> FALSE,
     createdByLib |-> (targetOptions = "create")]

\* Whether the target is an emulator that the session handles.
IsEmulatorTarget == platformKind = "android" /\ runTarget = "emulator"

\* A snapshot is captured after every platform.ensureDevice() of a library-created
\* emulator.
SnapshotsAlways(e) == e.createdByLib
\* if (emulator?.createdByLib && !emulator?.resetSnapshotName)
Snapshots(e) == e.createdByLib /\ ~e.resetSnapshotName

\* ensureDevice(ensureOptions).  how is the way the emulator process ends if it is
\* killed; failAt names the platform call that fails, if any.  The value tells whether
\* these answers fit the state (possible), and gives the processes, the EmulatorState
\* and the record of the call afterwards.
ensureDevice(killExisting, how, failAt) ==
    LET kills == killProcess(emulator.defined,
                             IF emulator.defined THEN emuProcs[emulator.proc] = "running"
                             ELSE FALSE)
        \* if (ensureOptions?.killExisting) await killProcess(emulator?.proc)
        procs1 == IF killExisting /\ kills THEN [emuProcs EXCEPT ![emulator.proc] = how]
                  ELSE emuProcs
        \* emulator && emulator.proc.exitCode !== null
        restarts == IsEmulatorTarget /\ emulator.defined /\ procs1[emulator.proc] = "exitedCode"
        creates == IsEmulatorTarget /\ ~emulator.defined /\ targetOptions # "none"
        launches == restarts \/ creates
        \* the model has a bounded number of processes
        free == \E p \in 1..MaxEmuProcs : emuProcs[p] = "unspawned"
        procs2 == IF ~free THEN procs1
                  ELSE IF restarts THEN startEmulator(procs1)
                  ELSE IF creates THEN [procs1 EXCEPT ![startNewEmulator.proc] = "running"]
                  ELSE procs1
        emulator2 == IF ~free THEN emulator
                     ELSE IF restarts THEN [emulator EXCEPT !.proc = FreshEmuProc]
                     ELSE IF creates THEN startNewEmulator
                     ELSE emulator
        live == {p \in 1..MaxEmuProcs : procs2[p] = "running"}
        resets == IsEmulatorTarget /\ ~killExisting /\ emulator2.resetSnapshotName
        snapshots == IsEmulatorTarget /\ Snapshots(emulator2)
        \* the platform calls in the order of the code, and those that are made
        steps == (IF IsEmulatorTarget THEN <<"waitForDevice">> ELSE <<>>)
                    \o (IF resets THEN <<"resetDevice">> ELSE <<>>)
                    \o <<"ensureDevice">>
                    \o (IF snapshots THEN <<"snapshotDeviceState">> ELSE <<>>)
        made == IF failAt = "none" THEN steps
                ELSE SubSeq(steps, 1, CHOOSE i \in 1..Len(steps) : steps[i] = failAt)
        reached(step) ==
            \/ failAt = "none"
            \/ step = "waitForDevice"
            \/ step = "resetDevice" /\ failAt # "waitForDevice"
        call == [NoCall EXCEPT !.op = IF killExisting THEN "ensureDevice.killExisting"
                                                     ELSE "ensureDevice",
                               !.emuKills = IF killExisting /\ kills THEN 1 ELSE 0,
                               !.emuLaunches = IF launches THEN 1 ELSE 0,
                               !.liveEmuAtWait = Cardinality(live),
                               !.hadEmulator = emulator.defined,
                               !.deadAtEntry = emulator.defined /\ emuProcs[emulator.proc] # "running",
                               !.platformResets = IF resets /\ reached("resetDevice") THEN 1 ELSE 0,
                               !.trace = IF \E i \in 1..Len(steps) : steps[i] = failAt
                                         THEN made ELSE steps,
                               !.outcome = IF failAt = "none" THEN "ok" ELSE "Error"]
    IN
    [possible |->
        /\ launches => free
        /\ failAt = "waitForDevice" => IsEmulatorTarget
        /\ failAt = "resetDevice" => resets
        /\ failAt = "snapshotDeviceState" => snapshots
        \* the device of a library-started emulator answers only while its process runs
        /\ (IsEmulatorTarget /\ targetOptions # "none" /\ live = {}) => failAt = "waitForDevice",
     procs |-> procs2,
     emulator |-> IF snapshots /\ failAt = "none"
                  THEN [emulator2 EXCEPT !.resetSnapshotName = TRUE]
                  ELSE emulator2,
     call |-> call]

EnsureFailures == {"none", "waitForDevice", "resetDevice", "ensureDevice", "snapshotDeviceState"}

EnsureDevice ==
    \E killExisting \in BOOLEAN, how \in KillOutcomes, failAt \in EnsureFailures :
    LET ensured == ensureDevice(killExisting, how, failAt) IN
    /\ ensured.possible
    /\ emuProcs' = ensured.procs
    /\ emulator' = ensured.emulator
    /\ lastCall' = ensured.call
    /\ UNCHANGED <<emulatorVars, platformKind, runTarget, targetOptions, trafficCollectionInProgress,
                   mitmproxyState, proxyProcs, caInstalled, deviceProxy, appAnalysis>>

\* ----------------------------------------------------------------- resetDevice
ResetOutcomes == {"ok", "Error", "TimeoutError"}

\* resetDevice() without the test of the snapshot name.
ResetRefusedOffEmulator == ~IsEmulatorTarget
\* The two usage errors of resetDevice(): the target is no Android emulator, or
\* emulator?.resetSnapshotName is not set.
ResetRefused == ~IsEmulatorTarget \/ ~(emulator.defined /\ emulator.resetSnapshotName)

\* A handler that escalates on every error of the first reset.
EscalatesOnAnyError(err) == err # "ok"
\* .catch(async (err) => { if (!(err instanceof TimeoutError)) throw err; ... })
Escalates(err) == err = "TimeoutError"

\* resetDevice().  first and second are the outcomes of the platform resets (each under
\* a timeout of five minutes); how and failAt are the answers to the forced
\* ensureDevice({ killExisting: true }), which has a timeout of 60 seconds
\* (ensureTimesOut).  A timeout rejects the caller and does not stop ensureDevice.
ResetDevice ==
    \E first \in ResetOutcomes, second \in ResetOutcomes, how \in KillOutcomes,
       failAt \in EnsureFailures, ensureTimesOut \in BOOLEAN :
    LET ensured == ensureDevice(TRUE, how, failAt)
        escalates == ~ResetRefused /\ Escalates(first)
        ensureOutcome == IF ensureTimesOut THEN "TimeoutError" ELSE ensured.call.outcome
        secondRuns == escalates /\ ensureOutcome = "ok"
        steps == IF ResetRefused THEN <<>>
                 ELSE IF ~escalates THEN <<"resetDevice">>
                 ELSE IF ~secondRuns THEN <<"resetDevice", "ensureDevice">>
                 ELSE <<"resetDevice", "ensureDevice", "resetDevice">>
        outcomes == IF ResetRefused THEN <<>>
                    ELSE IF ~escalates THEN <<first>>
                    ELSE IF ~secondRuns THEN <<first, ensureOutcome>>
                    ELSE <<first, ensureOutcome, second>>
    IN
    /\ escalates => ensured.possible
    /\ emuProcs' = IF escalates THEN ensured.procs ELSE emuProcs
    /\ emulator' = IF escalates THEN ensured.emulator ELSE emulator
    /\ lastCall' = [NoCall EXCEPT
            !.op = "resetDevice",
            !.outcome = IF ResetRefused THEN "UsageError"
                        ELSE IF first = "ok" THEN "ok"
                        ELSE outcomes[Len(outcomes)],
            !.platformResets = Cardinality({i \in 1..Len(steps) : steps[i] = "resetDevice"})
                               + IF escalates THEN ensured.call.platformResets ELSE 0,
            !.forcedEnsures = IF escalates THEN 1 ELSE 0,
            !.emuKills = IF escalates THEN ensured.call.emuKills ELSE 0,
            !.emuLaunches = IF escalates THEN ensured.call.emuLaunches ELSE 0,
            !.hadEmulator = emulator.defined,
            !.trace = steps,
            !.errors = outcomes]
    /\ UNCHANGED <<emulatorVars, platformKind, runTarget, targetOptions, trafficCollectionInProgress,
                   mitmproxyState, proxyProcs, caInstalled, deviceProxy, appAnalysis>>

\* The emulator process ends by itself: it crashes with an exit code or it is
\* terminated by a signal from outside.
EmulatorExits ==
    \E p \in LiveEmulators, how \in KillOutcomes :
        /\ emuProcs' = [emuProcs EXCEPT ![p] = how]
        /\ UNCHANGED <<emulatorVars, platformKind, runTarget, targetOptions, trafficCollectionInProgress,
                       mitmproxyState, proxyProcs, caInstalled, deviceProxy, emulator,
                       appAnalysis, lastCall>>

\* ------------------------------------------------------------------------ stop
Stop ==
    \E how \in KillOutcomes :
    LET killsProxy == killProcess(mitmproxyState.defined,
                                  IF mitmproxyState.defined
                                  THEN proxyProcs[mitmproxyState.proc] = "alive" ELSE FALSE)
        killsEmu == /\ IsEmulatorTarget
                    /\ killProcess(emulator.defined,
                                   IF emulator.defined THEN emuProcs[emulator.proc] = "running"
                                   ELSE FALSE)
    IN
    /\ proxyProcs' = IF killsProxy THEN [proxyProcs EXCEPT ![mitmproxyState.proc] = "closed"]
                     ELSE proxyProcs
    /\ emuProcs' = IF killsEmu THEN [emuProcs EXCEPT ![emulator.proc] = how] ELSE emuProcs
    /\ lastCall' = [NoCall EXCEPT !.op = "stop", !.outcome = "ok",
                                  !.proxyKills = IF killsProxy THEN 1 ELSE 0,
                                  !.emuKills = IF killsEmu THEN 1 ELSE 0]
    /\ UNCHANGED <<emulatorVars, platformKind, runTarget, targetOptions, trafficCollectionInProgress,
                   mitmproxyState, caInstalled, deviceProxy, emulator, appAnalysis>>

\* ------------------------------------------------------------ startAppAnalysis
\* appIdOrPath is the id of an app (a string that names no file), the path of an app
\* file, or the paths of the files of a split app.
AppKinds == {"id", "path", "files"}

\* appIdProvided = typeof appIdOrPath === 'string' && !(await fileExists(appIdOrPath))
AppIdProvided(kind) == kind = "id"

\* installApp() without its test.
InstallNeverRefused(appIdProvided) == FALSE
\* if (appIdProvided) throw new Error('Installing apps by ID is not supported.')
InstallRefused(appIdProvided) == appIdProvided

\* process.removeAllListeners('SIGINT') without effect.
KeepAllListeners(listeners) == listeners
\* process.removeAllListeners('SIGINT')
RemoveAllListeners(listeners) == <<>>

\* process.on('SIGINT', async () => { process.exit(); }): what the listener does.
SigintHandler == <<"process.exit">>

\* startAppAnalysis(appIdOrPath, options).  given is [app, kind, resetApp, noSigint];
\* answers is what the device says: installed (isAppInstalled), parsed (parseAppMeta
\* finds the metadata), uninstallOk and installOk.
startAppAnalysis(given, answers) ==
    LET appIdProvided == AppIdProvided(given.kind)
        call == [NoCall EXCEPT !.op = "startAppAnalysis",
                               !.input = <<given.kind,
                                           IF answers.installed THEN "installed"
                                           ELSE "notInstalled">>]
        \* if (options?.resetApp) { await uninstallApp(); await installApp(); }
        reset == IF ~given.resetApp THEN <<>>
                 ELSE IF ~answers.uninstallOk \/ InstallRefused(appIdProvided)
                 THEN <<"uninstallApp">>
                 ELSE <<"uninstallApp", "installApp">>
        \* the apps that platform.uninstallApp and platform.installApp have removed
        \* from and put on the device when the reset is over
        uninstalled == IF given.resetApp /\ answers.uninstallOk THEN <<given.app>> ELSE <<>>
        installed == IF /\ given.resetApp /\ answers.uninstallOk
                        /\ ~InstallRefused(appIdProvided) /\ answers.installOk
                     THEN <<given.app>> ELSE <<>>
        failed(message, steps) ==
            /\ lastCall' = [call EXCEPT !.outcome = "Error", !.errors = <<message>>,
                                        !.trace = steps]
            /\ UNCHANGED <<appAnalysis, process>>
        failedInReset(message) ==
            /\ lastCall' = [call EXCEPT !.outcome = "Error", !.errors = <<message>>,
                                        !.trace = reset,
                                        !.uninstalled = uninstalled,
                                        !.installed = installed]
            /\ UNCHANGED <<appAnalysis, process>>
    IN
    IF given.kind = "files" /\ platformKind # "android"
    THEN failed("Split app files are only supported on Android.", <<>>)
    ELSE IF appIdProvided /\ ~answers.installed
    THEN failed("is not installed but you only provided an app ID.", <<"isAppInstalled">>)
    ELSE IF ~appIdProvided /\ ~answers.parsed
    THEN failed("Could not start analysis with invalid app", <<>>)
    ELSE IF given.resetApp /\ ~answers.uninstallOk
    THEN failedInReset("Error")
    ELSE IF given.resetApp /\ InstallRefused(appIdProvided)
    THEN failedInReset("Installing apps by ID is not supported.")
    ELSE IF given.resetApp /\ ~answers.installOk
    THEN failedInReset("Error")
    ELSE
    /\ appAnalysis' = [NoAppAnalysis EXCEPT !.active = TRUE, !.app = given.app,
                                            !.scoped = appAnalysis.scoped,
                                            !.appIdOrPath = given.kind,
                                            !.appIdProvided = appIdProvided,
                                            !.noSigint = given.noSigint]
    /\ process' = IF given.noSigint THEN process
                  ELSE [process EXCEPT !.sigint = Append(RemoveAllListeners(@), "library")]
    /\ lastCall' = [call EXCEPT
                      !.outcome = "ok",
                      !.uninstalled = uninstalled,
                      !.installed = installed,
                      !.trace = (IF appIdProvided THEN <<"isAppInstalled">> ELSE <<>>)
                                    \o reset
                                    \o (IF given.noSigint THEN <<>>
                                        ELSE <<"removeAllListeners", "on">>)]

\* The answers of a device on which every call succeeds.
AllWell == [installed |-> TRUE, parsed |-> TRUE, uninstallOk |-> TRUE, installOk |-> TRUE]

\* startAppAnalysis(path, { noSigint: true }) with the file of an app.
StartAppAnalysis ==
    \E app \in Apps :
        /\ ~process.exited
        /\ startAppAnalysis([app |-> app, kind |-> "path", resetApp |-> FALSE,
                             noSigint |-> TRUE], AllWell)
        /\ UNCHANGED <<handleVars, emulatorList, resolved, platformKind, runTarget,
                       targetOptions, trafficCollectionInProgress, mitmproxyState,
                       proxyProcs, caInstalled, deviceProxy, emulator, emuProcs>>

\* startAppAnalysis(appIdOrPath, options) with any argument, options and answers.  An
\* id is no app file, and only an id is looked up on the device.
StartAnyAppAnalysis ==
    \E app \in Apps, kind \in AppKinds, resetApp \in BOOLEAN, noSigint \in BOOLEAN,
       answers \in [installed : BOOLEAN, parsed : BOOLEAN, uninstallOk : BOOLEAN,
                    installOk : BOOLEAN] :
        /\ ~process.exited
        /\ kind = "id" => ~answers.parsed
        /\ kind # "id" => answers.installed
        /\ ~resetApp => answers.uninstallOk /\ answers.installOk
        /\ startAppAnalysis([app |-> app, kind |-> kind, resetApp |-> resetApp,
                             noSigint |-> noSigint], answers)
        /\ UNCHANGED <<handleVars, emulatorList, resolved, platformKind, runTarget,
                       targetOptions, trafficCollectionInProgress, mitmproxyState,
                       proxyProcs, caInstalled, deviceProxy, emulator, emuProcs>>

\* appAnalysis.installApp()
AppInstallApp ==
    \E installOk \in BOOLEAN :
        /\ ~process.exited
        /\ appAnalysis.active
        /\ lastCall' =
             IF InstallRefused(appAnalysis.appIdProvided)
             THEN [NoCall EXCEPT !.op = "appAnalysis.installApp", !.outcome = "Error",
                                 !.errors = <<"Installing apps by ID is not supported.">>]
             ELSE [NoCall EXCEPT !.op = "appAnalysis.installApp",
                                 !.outcome = IF installOk THEN "ok" ELSE "Error",
                                 !.errors = IF installOk THEN <<>> ELSE <<"Error">>,
                                 !.trace = <<"installApp">>]
        /\ UNCHANGED <<emulatorVars, platformKind, runTarget, targetOptions,
                       trafficCollectionInProgress, mitmproxyState, proxyProcs, caInstalled,
                       deviceProxy, emulator, emuProcs, appAnalysis>>

\* appAnalysis.startTrafficCollection(name): the name, or the time of the call if no name
\* is given, is stored before startTrafficCollection() runs.
AppStartTrafficCollection ==
    \E name \in CollectionNames :
    \* inProgressTrafficCollectionName = name ?? new Date().toISOString()
    LET key == IF name = "undefined" THEN Timestamp ELSE CollectionName(name) IN
        /\ ~process.exited
        /\ appAnalysis.active
        /\ startTrafficCollection("appAnalysis.startTrafficCollection",
                                  [mode |-> "allowlist", apps |-> <<appAnalysis.app>>])
        /\ appAnalysis' = [appAnalysis EXCEPT
                !.inProgressTrafficCollectionName = key,
                !.scoped = IF lastCall'.outcome = "ok" THEN key
                           ELSE IF lastCall'.proxySpawns = 1 THEN NoName
                           ELSE @]
        /\ UNCHANGED <<emulatorVars, platformKind, runTarget, targetOptions, emulator, emuProcs>>

\* appAnalysis.stopTrafficCollection()
AppStopTrafficCollection ==
    /\ ~process.exited
    /\ appAnalysis.active
    /\ IF appAnalysis.inProgressTrafficCollectionName = NoName
       THEN /\ lastCall' = [NoCall EXCEPT !.op = "appAnalysis.stopTrafficCollection",
                                          !.outcome = "UsageNotRunning"]
            /\ UNCHANGED <<trafficCollectionInProgress, mitmproxyState, proxyProcs,
                           caInstalled, deviceProxy, appAnalysis>>
       ELSE \E har \in {"ok", "unreadable", "invalid"}, routeOk \in BOOLEAN, caOk \in BOOLEAN :
            /\ stopTrafficCollection("appAnalysis.stopTrafficCollection", har, routeOk, caOk,
                                     <<appAnalysis.inProgressTrafficCollectionName>>)
            /\ appAnalysis' =
                 IF lastCall'.outcome = "ok"
                 THEN [appAnalysis EXCEPT
                         \* if (mitmproxyState?.events) res.mitmproxyEvents = mitmproxyState?.events
                         !.mitmproxyEvents = IF mitmproxyState'.defined
                                             THEN mitmproxyState'.events ELSE @,
                         !.scoped = NoName,
                         !.inProgressTrafficCollectionName = NoName]
                 ELSE appAnalysis
    /\ UNCHANGED <<emulatorVars, platformKind, runTarget, targetOptions, emulator, emuProcs>>

\* appAnalysis.stop()
\* appAnalysis.stop(stopOptions).  An uninstallApp() that rejects ends the call before
\* the listeners are removed.
AppStop ==
    \E uninstallApp \in BOOLEAN, uninstallOk \in BOOLEAN :
    LET call == [NoCall EXCEPT !.op = "appAnalysis.stop"] IN
        /\ ~process.exited
        /\ appAnalysis.active
        /\ ~uninstallApp => uninstallOk
        /\ IF uninstallApp /\ ~uninstallOk
           THEN /\ lastCall' = [call EXCEPT !.outcome = "Error", !.errors = <<"Error">>,
                                            !.trace = <<"uninstallApp">>]
                /\ UNCHANGED <<appAnalysis, process>>
           ELSE /\ appAnalysis' = [appAnalysis EXCEPT !.active = FALSE]
                /\ process' = IF appAnalysis.noSigint THEN process
                              ELSE [process EXCEPT !.sigint = RemoveAllListeners(@)]
                /\ lastCall' = [call EXCEPT
                                  !.outcome = "ok",
                                  !.trace = (IF uninstallApp THEN <<"uninstallApp">> ELSE <<>>)
                                                \o (IF appAnalysis.noSigint THEN <<>>
                                                    ELSE <<"removeAllListeners">>)]
        /\ UNCHANGED <<handleVars, emulatorList, resolved, platformKind, runTarget,
                       targetOptions, trafficCollectionInProgress, mitmproxyState,
                       proxyProcs, caInstalled, deviceProxy, emulator, emuProcs>>

\* The caller's program registers a 'SIGINT' listener of its own.
UserListens ==
    /\ ~process.exited
    /\ Cardinality({i \in 1..Len(process.sigint) : process.sigint[i] = "user"}) < MaxListeners
    /\ process' = [process EXCEPT !.sigint = Append(@, "user")]
    /\ UNCHANGED <<sessionVars, handleVars, emulatorList, resolved>>

\* The process receives SIGINT.  Without a listener Node.js ends the process; otherwise
\* the listeners run in the order of their registration, and the library's listener
\* ends the process.  The child processes are not touched by the end of the process.
Sigint ==
    LET library == \E i \in 1..Len(process.sigint) : process.sigint[i] = "library"
        steps == IF library THEN SigintHandler ELSE <<>>
        kills == \E i \in 1..Len(steps) : steps[i] = "killProcess"
        killsProxy == kills /\ killProcess(mitmproxyState.defined,
                                           IF mitmproxyState.defined
                                           THEN proxyProcs[mitmproxyState.proc] = "alive"
                                           ELSE FALSE)
    IN
    /\ ~process.exited
    /\ process' = [process EXCEPT !.exited = library \/ process.sigint = <<>>]
    /\ proxyProcs' = IF killsProxy THEN [proxyProcs EXCEPT ![mitmproxyState.proc] = "closed"]
                     ELSE proxyProcs
    /\ lastCall' = [NoCall EXCEPT !.op = "SIGINT",
                                  !.outcome = IF library THEN "exit"
                                              ELSE IF process.sigint = <<>> THEN "terminated"
                                              ELSE "handled",
                                  !.proxyKills = IF killsProxy THEN 1 ELSE 0,
                                  !.trace = steps]
    /\ UNCHANGED <<handleVars, emulatorList, resolved, platformKind, runTarget, targetOptions,
                   trafficCollectionInProgress, mitmproxyState, caInstalled, deviceProxy,
                   emulator, emuProcs, appAnalysis>>

\* ============================================================ AndroidEmulator
\* The handle, its processes, the calls in flight and the history as one value, so
\* that the steps of start() compose.
\* new EmulatorError(message, context): the three fields are those of the context, and
\* undefined without one.
NoContext == [consoleOutput |-> "undefined", emulatorCommand |-> "undefined",
              signal |-> "undefined"]
EmulatorError(name, context) ==
    [name |-> name, consoleOutput |-> context.consoleOutput,
     emulatorCommand |-> context.emulatorCommand, signal |-> context.signal]
NoError == EmulatorError("none", NoContext)
\* throw new EmulatorError(`The emulator cannot be restarted after a failed run, ...`)
LimitsReached == EmulatorError("EmulatorError", NoContext)

NoStart == [outcome |-> "none", rebuilt |-> 0, overLimitAtEntry |-> FALSE,
            error |-> NoError]

\* history.lastStart describes the start() call that ended in the last step, if any.
World == [emu |-> androidEmulator, procs |-> emulatorProcs, calls |-> calls,
          hist |-> [history EXCEPT !.lastStart = NoStart, !.effects = <<>>]]
SetWorld(w) ==
    /\ androidEmulator' = w.emu
    /\ emulatorProcs' = w.procs
    /\ calls' = w.calls
    /\ history' = w.hist

NoProc == [st |-> "unspawned", sig |-> "none", killed |-> FALSE, listening |-> FALSE,
           restartOnExit |-> 0, stdout |-> {}]
SettledProc == [st |-> "settled", sig |-> "none", killed |-> FALSE, listening |-> FALSE,
                restartOnExit |-> 0, stdout |-> {}]

\* this.lastError: undefined, the ExecaError of process p that ended by sig, or the
\* error given to fail().
NoLastError == [name |-> "undefined", proc |-> 0, signal |-> "none"]
ExecaError(p, sig) == [name |-> "ExecaError", proc |-> p, signal |-> sig]
FailError == [name |-> "Error", proc |-> 0, signal |-> "none"]

\* this._abortController.abort(reason): an aborted signal keeps its reason.
Abort(abort, reason) == IF abort = "none" THEN reason ELSE abort
IdleCall == [pc |-> "idle", op |-> "none", force |-> FALSE, target |-> 0, rebuilt |-> 0,
             overLimitAtEntry |-> FALSE]

\* How a running process answers proc.kill(): it dies from SIGTERM, or it ignores the
\* signal until killProcess() sends SIGKILL after the grace period.
KillResponses == {"SIGTERM", "ignored"}

\* proc.kill() as killProcess(proc) sends it.
KillSignal(w, p, resp) ==
    IF p # 0 /\ w.procs[p].st = "running" /\ w.procs[p].sig = "none"
    THEN [w EXCEPT !.procs[p].sig = resp, !.procs[p].killed = TRUE,
                   !.hist.crashLoop = FALSE]
    ELSE w

\* await timeout(proc, ...) in killProcess(proc) is over: the process has settled.
KillSettled(w, p) == IF p = 0 THEN TRUE ELSE w.procs[p].st \in {"settled", "unspawned"}
\* A grace period that is over as soon as the signal is sent.
KillWithoutGrace(w, p) ==
    IF p = 0 THEN FALSE ELSE w.procs[p].st = "running"
\* ... or the grace period of 15 seconds is over and the process still runs.
KillTimedOut(w, p) ==
    IF p = 0 THEN FALSE ELSE w.procs[p].st = "running" /\ w.procs[p].sig = "ignored"

\* The escalation guard with the comparison off by one.
TooManyFailedStartsAtLimit(failedStarts, limit) == failedStarts >= limit
\* if (this.failedStarts > this.restartLimit)
TooManyFailedStarts(failedStarts, limit) == failedStarts > limit

\* if (this.rebuilds <= this.rebuildsLimit) await this.rebuild(); else throw ...
RebuildAllowed(rebuilds, limit) == rebuilds <= limit

\* if (this._proc && !this.hasExited) return;
RunningGuard(e) == e.proc # 0 /\ ~e.hasExited

\* A start(), kill() or fail() invocation c ends.
Finish(w, c, outcome) ==
    LET call == w.calls[c] IN
    [w EXCEPT !.calls[c] = IdleCall,
              !.hist.lastStart =
                  IF call.op = "start"
                  THEN [outcome |-> outcome, rebuilt |-> call.rebuilt,
                        overLimitAtEntry |-> call.overLimitAtEntry,
                        error |-> IF outcome = "EmulatorError" THEN LimitsReached
                                  ELSE NoError]
                  ELSE w.hist.lastStart]

\* start(), lines 221-229: the forced restart, the no-op on a running emulator, and
\* the suspension before the launch.
StartRest(w, c, resp) ==
    LET e == w.emu
        force == w.calls[c].force
    IN
    IF force /\ ~e.hasExited /\ e.proc # 0
    THEN \* this._proc.on('exit', () => this.start()); return this.kill();
         [KillSignal([w EXCEPT !.procs[e.proc].restartOnExit = @ + 1], e.proc, resp)
             EXCEPT !.calls[c].pc = "kill", !.calls[c].target = e.proc]
    ELSE IF RunningGuard(e)
    THEN Finish(w, c, "noop")
    ELSE [w EXCEPT !.calls[c].pc = "launch"]

\* start(), lines 208-219: the escalation to rebuild() or to the terminal error.
StartPrefix(w, c, force, resp) ==
    LET e == w.emu
        pending == \E p \in 1..MaxLaunches : w.procs[p].st = "exited"
        w1 == [w EXCEPT !.hist.crashLoop = @ /\ ~pending,
                        !.calls[c] = [IdleCall EXCEPT !.op = "start", !.force = force,
                                          !.overLimitAtEntry =
                                              e.failedStarts >= restartLimit + 1]]
    IN
    IF TooManyFailedStarts(e.failedStarts, restartLimit)
    THEN IF RebuildAllowed(e.rebuilds, rebuildsLimit)
         THEN IF ~managed
              THEN \* rebuild(): 'Emulators can only by rebuilt if ...'
                   Finish(w1, c, "Error")
              ELSE \* rebuild(): await this.kill()
                   [KillSignal(w1, e.proc, resp)
                       EXCEPT !.calls[c].pc = "rebuild", !.calls[c].target = e.proc]
         ELSE Finish(w1, c, "EmulatorError")
    ELSE StartRest(w1, c, resp)

\* The 'exit' event of process p, which ends by sig: the listener of line 256 and the
\* listeners that forced restarts added (line 223).
FreeScheduled(w) == {c \in 1..MaxScheduled : w.calls[c].pc = "idle"}
ExitEvent(w, p, sig, resp) ==
    LET listening == w.procs[p].listening
        restarts == w.procs[p].restartOnExit
        w1 == [w EXCEPT !.procs[p].st = "exited", !.procs[p].sig = sig,
                        !.hist.crashLoop = @ /\ sig # "exit0"]
        \* this.hasExited = true; this._proc?.removeAllListeners();
        w2 == IF ~listening THEN w1
              ELSE IF w1.emu.proc = 0 THEN [w1 EXCEPT !.emu.hasExited = TRUE]
              ELSE [w1 EXCEPT !.emu.hasExited = TRUE,
                              !.procs[w1.emu.proc].listening = FALSE,
                              !.procs[w1.emu.proc].restartOnExit = 0]
        w3 == [w2 EXCEPT !.procs[p].listening = FALSE, !.procs[p].restartOnExit = 0]
    IN
    IF listening /\ restarts > 0 /\ FreeScheduled(w3) # {}
    THEN StartPrefix(w3, CHOOSE c \in FreeScheduled(w3) : TRUE, FALSE, resp)
    ELSE w3

\* proc.kill(9) in the catch of killProcess(proc): a process that has exited gets no
\* signal, a process that still runs after the grace period ends by SIGKILL.
ForceKill(w, p, resp) ==
    IF KillTimedOut(w, p) THEN ExitEvent(w, p, "SIGKILL", resp) ELSE w

\* if (error.signal === 'SIGTERM') return; with any signal of a kill taken for intended.
IntentionalAnyKill(sig) == sig \in {"SIGTERM", "SIGKILL"}
\* if (error.signal === 'SIGTERM') return; // The process was killed intentionally.
Intentional(sig) == sig = "SIGTERM"

\* error.stdout is modelled by the set of these phrases that it includes.
SnapshotPhrases == {"Failed to load snapshot", "The snapshot requires the feature"}
\* The reason the failure callback aborts with (lines 242-254): the error 'Loading the
\* emulator state failed. ...' if the output includes both phrases, else
\* EmulatorError.fromExecaError(error).
AbortReason(stdout) ==
    IF /\ "Failed to load snapshot" \in stdout
       /\ "The snapshot requires the feature" \in stdout
    THEN "LoadingFailed"
    ELSE "EmulatorError"

\* The promise of process p settles.  A process that exited with code 0 resolves it;
\* otherwise it rejects and the failure callback of line 235 runs.
FailureCallback(w, p) ==
    LET sig == w.procs[p].sig
        killed == w.procs[p].killed
        w1 == [w EXCEPT !.procs[p] = SettledProc]
    IN
    IF sig = "exit0" \/ Intentional(sig) THEN w1
    ELSE LET w2 == [w1 EXCEPT !.emu.failedStarts = @ + 1,
                              !.emu.lastError = ExecaError(p, sig),
                              \* this._abortController.abort(...)
                              !.emu.abort = Abort(@, AbortReason(w.procs[p].stdout))]
             \* if (!error.killed && !error.isCanceled) await killProcess(this._proc);
             w3 == IF ~killed THEN KillSignal(w2, w2.emu.proc, "SIGTERM") ELSE w2
         IN  w3

\* await deleteEmulator(this.name); await createEmulator(this.name, this.createOptions);
\* failAt names the one that rejects.
RebuildFailures == {"none", "deleteEmulator", "createEmulator"}
Recreated(w, failAt) ==
    IF failAt = "deleteEmulator" THEN w
    ELSE IF failAt = "createEmulator"
    THEN [w EXCEPT !.hist.device = FALSE, !.hist.effects = <<"deleteEmulator">>]
    ELSE [w EXCEPT !.hist.device = TRUE,
                   !.hist.effects = <<"deleteEmulator", "createEmulator">>]

\* rebuild() that keeps the remembered snapshot.
RebuiltKeepingSnapshot(w, c) ==
    [w EXCEPT !.emu.failedStarts = 0, !.emu.rebuilds = @ + 1, !.emu.hasExited = FALSE,
              !.emu.proc = 0,
              !.calls[c].rebuilt = @ + 1]
\* rebuild() that does not count the rebuild.
RebuiltUncounted(w, c) ==
    [w EXCEPT !.emu.failedStarts = 0, !.emu.hasExited = FALSE,
              !.emu.proc = 0, !.emu.resetSnapshotName = FALSE,
              !.calls[c].rebuilt = @ + 1]
\* rebuild(), lines 285-292, once its kill() is over.
Rebuilt(w, c) ==
    [w EXCEPT !.emu.failedStarts = 0, !.emu.rebuilds = @ + 1, !.emu.hasExited = FALSE,
              !.emu.proc = 0, !.emu.resetSnapshotName = FALSE,
              !.calls[c].rebuilt = @ + 1]

\* start(), lines 231-264: the launch.
Launched(w, c) ==
    LET p == w.hist.launches + 1 IN
    Finish([w EXCEPT !.emu.proc = p, !.emu.hasExited = FALSE,
                     \* if (this._abortController.signal.aborted) ... = new AbortController()
                     !.emu.abort = "none",
                     !.emu.lastError = NoLastError,
                     !.procs[p] = [st |-> "running", sig |-> "none", killed |-> FALSE,
                                   listening |-> TRUE, restartOnExit |-> 0,
                                   stdout |-> {}],
                     !.hist.launches = p],
           c, "launched")

\* ---- the caller's calls (one at a time)
\* start()
EmuStart ==
    \E resp \in KillResponses :
        /\ calls[0].pc = "idle"
        /\ SetWorld(StartPrefix(World, 0, FALSE, resp))
        /\ UNCHANGED <<sessionVars, hostVars, restartLimit, rebuildsLimit, managed>>

\* start({ forceRestart: true })
EmuForceRestart ==
    \E resp \in KillResponses :
        /\ calls[0].pc = "idle"
        /\ SetWorld(StartPrefix(World, 0, TRUE, resp))
        /\ UNCHANGED <<sessionVars, hostVars, restartLimit, rebuildsLimit, managed>>

EmuKill ==
    \E resp \in KillResponses :
        /\ calls[0].pc = "idle"
        /\ SetWorld([KillSignal(World, androidEmulator.proc, resp)
                        EXCEPT !.calls[0] = [IdleCall EXCEPT !.op = "kill", !.pc = "kill",
                                                 !.target = androidEmulator.proc]])
        /\ UNCHANGED <<sessionVars, hostVars, restartLimit, rebuildsLimit, managed>>

EmuFail ==
    \E resp \in KillResponses :
        /\ calls[0].pc = "idle"
        /\ androidEmulator.failedStarts < MaxFailedStarts
        /\ LET w == [World EXCEPT !.emu.failedStarts = @ + 1, !.emu.lastError = FailError,
                                  !.emu.abort = Abort(@, "Error"),
                                  !.hist.crashLoop = FALSE]
           IN SetWorld([KillSignal(w, androidEmulator.proc, resp)
                           EXCEPT !.calls[0] = [IdleCall EXCEPT !.op = "fail", !.pc = "kill",
                                                    !.target = androidEmulator.proc]])
        /\ UNCHANGED <<sessionVars, hostVars, restartLimit, rebuildsLimit, managed>>

\* ---- the suspended invocations resume
\* kill() returns: the process has settled, or SIGKILL is sent after the grace period.
KillReturns ==
    \E c \in 0..MaxScheduled, resp \in KillResponses :
        /\ calls[c].pc = "kill"
        /\ KillSettled(World, calls[c].target) \/ KillTimedOut(World, calls[c].target)
        /\ SetWorld(Finish(ForceKill(World, calls[c].target, resp), c, "killed"))
        /\ UNCHANGED <<sessionVars, hostVars, restartLimit, rebuildsLimit, managed>>

\* rebuild() continues after its kill(): deleteEmulator and createEmulator succeed, or
\* one of them rejects (failAt), then start() goes on.  avdmanager cannot delete a
\* virtual device that does not exist.
RebuildContinues ==
    \E c \in 0..MaxScheduled, resp \in KillResponses, failAt \in RebuildFailures :
        /\ calls[c].pc = "rebuild"
        /\ ~history.device => failAt = "deleteEmulator"
        /\ LET t == calls[c].target
               w == ForceKill(World, t, resp)
           IN /\ KillSettled(World, t) \/ KillTimedOut(World, t)
              /\ w.calls[c].pc = "rebuild"
              /\ SetWorld(IF failAt = "none"
                          THEN StartRest(Rebuilt(Recreated(w, failAt), c), c, resp)
                          ELSE Finish(Recreated(w, failAt), c, "Error"))
        /\ UNCHANGED <<sessionVars, hostVars, restartLimit, rebuildsLimit, managed>>

\* ensureSdkmanager() and getAndroidDevToolPath() have resolved: execa launches.
Launch ==
    \E c \in 0..MaxScheduled :
        /\ calls[c].pc = "launch"
        /\ history.launches < MaxLaunches
        /\ SetWorld(Launched(World, c))
        /\ UNCHANGED <<sessionVars, hostVars, restartLimit, rebuildsLimit, managed>>

\* ---- the emulator processes
\* A running process crashes.
ProcessCrashes ==
    \E p \in 1..MaxLaunches, resp \in KillResponses :
        /\ emulatorProcs[p].st = "running"
        /\ emulatorProcs[p].sig = "none"
        /\ SetWorld(ExitEvent(World, p, "crash", resp))
        /\ UNCHANGED <<sessionVars, hostVars, restartLimit, rebuildsLimit, managed>>

\* A running process fails to load its snapshot and exits with an error code; what it
\* has written includes one or both of the phrases.
ProcessFailsToLoad ==
    \E p \in 1..MaxLaunches, resp \in KillResponses,
       stdout \in SUBSET SnapshotPhrases \ {{}} :
        /\ emulatorProcs[p].st = "running"
        /\ emulatorProcs[p].sig = "none"
        /\ SetWorld(ExitEvent([World EXCEPT !.procs[p].stdout = stdout], p, "crash", resp))
        /\ UNCHANGED <<sessionVars, hostVars, restartLimit, rebuildsLimit, managed>>

\* A running process exits with code 0 (the emulator is shut down or its window is
\* closed).
ProcessEnds ==
    \E p \in 1..MaxLaunches, resp \in KillResponses :
        /\ emulatorProcs[p].st = "running"
        /\ emulatorProcs[p].sig = "none"
        /\ SetWorld(ExitEvent(World, p, "exit0", resp))
        /\ UNCHANGED <<sessionVars, hostVars, restartLimit, rebuildsLimit, managed>>

\* A process that was sent SIGTERM exits; its promise rejects with the signal SIGTERM,
\* which the failure callback ignores.
ProcessTerminates ==
    \E p \in 1..MaxLaunches, resp \in KillResponses :
        /\ emulatorProcs[p].st = "running"
        /\ emulatorProcs[p].sig = "SIGTERM"
        /\ SetWorld(FailureCallback(ExitEvent(World, p, "SIGTERM", resp), p))
        /\ UNCHANGED <<sessionVars, hostVars, restartLimit, rebuildsLimit, managed>>

\* The promise of a process that has exited rejects: the failure callback runs.
ProcessSettles ==
    \E p \in 1..MaxLaunches :
        /\ emulatorProcs[p].st = "exited"
        /\ SetWorld(FailureCallback(World, p))
        /\ UNCHANGED <<sessionVars, hostVars, restartLimit, rebuildsLimit, managed>>

\* ------------------------------------------------------------ specifications
InitHandle ==
    \* the handle of an emulator whose snapshot fromRunTarget() found (line 175) or
    \* whose snapshotName was given (line 182)
    /\ androidEmulator = [failedStarts |-> 0, rebuilds |-> 0, hasExited |-> FALSE,
                          proc |-> 0, resetSnapshotName |-> TRUE,
                          lastError |-> NoLastError, abort |-> "none"]
    /\ emulatorProcs = [p \in 1..MaxLaunches |-> NoProc]
    /\ calls = [c \in 0..MaxScheduled |-> IdleCall]
    /\ history = [launches |-> 0, crashLoop |-> TRUE, lastStart |-> NoStart,
                  device |-> TRUE, effects |-> <<>>]
    /\ resolved = NoResolve
    /\ process = [sigint |-> <<>>, exited |-> FALSE]

InitSession ==
    /\ trafficCollectionInProgress = NoCollection
    /\ mitmproxyState = NoMitmproxy
    /\ proxyProcs = [p \in 1..MaxProxies |-> "unspawned"]
    /\ caInstalled = FALSE
    /\ deviceProxy = NoRoute
    /\ emulator = NoEmulator
    /\ emuProcs = [p \in 1..MaxEmuProcs |-> "unspawned"]
    /\ appAnalysis = NoAppAnalysis
    /\ lastCall = NoCall

\* The session on a device or on an emulator the user runs: traffic collections and
\* app analyses.
Init ==
    /\ platformKind \in {"android", "ios"}
    /\ runTarget \in {"emulator", "device"}
    /\ platformKind = "ios" => runTarget = "device"
    /\ targetOptions = "none"
    /\ InitSession
    /\ restartLimit = 1 /\ rebuildsLimit = 1 /\ managed = FALSE
    /\ InitHandle
    /\ emulatorList = {ForeignEmulator}

Next ==
    \/ StartTrafficCollection
    \/ StopTrafficCollection
    \/ ProxyExits
    \/ EnsureDevice
    \/ Stop
    \/ StartAppAnalysis
    \/ AppStartTrafficCollection
    \/ AppStopTrafficCollection
    \/ AppStop

\* The session on an emulator that the library starts: device handling.
InitDevice ==
    /\ platformKind \in {"android", "ios"}
    /\ runTarget \in {"emulator", "device"}
    /\ platformKind = "ios" => runTarget = "device"
    /\ targetOptions \in {"none", "named", "create"}
    /\ runTarget = "device" => targetOptions = "none"
    /\ InitSession
    /\ restartLimit = 1 /\ rebuildsLimit = 1 /\ managed = (targetOptions = "create")
    /\ InitHandle
    /\ emulatorList = {ForeignEmulator}

NextDevice ==
    \/ EnsureDevice
    \/ EmulatorExits
    \/ Stop
    \/ ResetDevice

\* ------------------------------------------------------------- fromRunTarget
Keys == {"a", "b"}
CreateEmulatorOptions == {"undefined", "api30", "api33"}
HoneyData == {"undefined", "honey"}
Capabilities == {"frida", "certificate-pinning-bypass"}
\* The capabilities argument: an array that names no capability twice.
CapabilityLists ==
    {c \in UNION {[1..n -> Capabilities] : n \in 0..MaxCapabilities} :
        \A i, j \in DOMAIN c : c[i] = c[j] => i = j}

\* managedEmulatorOptions.createEmulatorOptions || { apiLevel: 30, ... }
EmulatorOptions(createEmulatorOptions) ==
    IF createEmulatorOptions = "undefined" THEN "api30" ELSE createEmulatorOptions

\* The serialisation that hashObject() digests: the keys of objects are sorted, an
\* array keeps the order of its elements.  The numbers stand for the md5 digests, one
\* for each serialisation.
RECURSIVE ArrayCode(_)
ArrayCode(array) ==
    IF array = <<>> THEN 0
    ELSE ArrayCode(SubSeq(array, 1, Len(array) - 1)) * (Cardinality(Capabilities) + 1)
         + (IF array[Len(array)] = "frida" THEN 1 ELSE 2)

\* hashObject({ emulatorOptions, honeyData, capabilities }, { algorithm: 'md5' })
hashObject(emulatorOptions, honeyData, capabilities) ==
    1 + (IF emulatorOptions = "api30" THEN 0 ELSE 1)
      + 2 * (IF honeyData = "undefined" THEN 0 ELSE 1)
      + 4 * ArrayCode(capabilities)

\* text.startsWith(start)
StartsWith(text, start) ==
    Len(text) >= Len(start) /\ SubSeq(text, 1, Len(start)) = start
\* The text ends with the given end.
EndsWith(text, end) ==
    Len(text) >= Len(end) /\ SubSeq(text, Len(text) - Len(end) + 1, Len(text)) = end

\* The texts in front of the digest in the names of the model, as <<prefix, key>>.
NameTexts ==
    {<<p, k>> : p \in {"", "cyanoacrylate-", "Copy_of_cyanoacrylate-"},
                k \in Keys \cup {"Pixel_6_API_33", "cyanoacrylate-a", "none"}}
\* new RegExp(`cyanoacrylate-${key}-([a-fA-F0-9]{32})(-headless)?`): the pattern has no
\* ^, so it is searched for anywhere in the name, and any text may precede
\* `cyanoacrylate-${key}-`.  For each text, the keys whose pattern finds the digest.
emuNameRegex ==
    [t \in NameTexts |-> {key \in Keys : EndsWith(t[1] \o t[2], "cyanoacrylate-" \o key)}]
\* name.startsWith('cyanoacrylate-')
OwnName == [t \in NameTexts |-> StartsWith(t[1] \o t[2], "cyanoacrylate-")]

\* name.match(emuNameRegex) for the key.
Matches(name, key) == name.hash > 0 /\ key \in emuNameRegex[<<name.prefix, name.key>>]

\* AndroidEmulator.fromRunTarget() for a managed emulator.
FromRunTarget ==
    \E key \in Keys, createEmulatorOptions \in CreateEmulatorOptions, honeyData \in HoneyData,
       capabilities \in CapabilityLists, headless \in BOOLEAN :
    LET emulatorOptions == EmulatorOptions(createEmulatorOptions)
        optionsHash == hashObject(emulatorOptions, honeyData, capabilities)
        name == EmulatorName("cyanoacrylate-", key, optionsHash,
                             IF headless THEN "-headless" ELSE "")
        existingEmulators ==
            {n \in emulatorList : /\ Matches(n, key)
                                  /\ n.hash = optionsHash
                                  /\ (n.suffix = "-headless") = headless}
        \* if (name.startsWith('cyanoacrylate-')) await deleteEmulator(name);
        deleted == {n \in emulatorList : /\ Matches(n, key)
                                         /\ n \notin existingEmulators
                                         /\ OwnName[<<n.prefix, n.key>>]}
        unique == Cardinality(existingEmulators) <= 1
        creates == existingEmulators = {}
    IN
    /\ emulatorList' = (emulatorList \ deleted) \cup (IF creates THEN {name} ELSE {})
    /\ resolved' = [defined |-> TRUE, key |-> key, emulatorOptions |-> emulatorOptions,
                    honeyData |-> honeyData, capabilities |-> capabilities,
                    name |-> name,
                    outcome |-> IF unique THEN "ok" ELSE "Error",
                    reused |-> IF unique /\ ~creates THEN existingEmulators ELSE {},
                    created |-> IF creates THEN {name} ELSE {},
                    deleted |-> Cardinality(deleted)]
    /\ UNCHANGED <<sessionVars, handleVars, process>>

\* One session on an Android emulator that the caller runs, with app analyses.
InitApp == Init /\ platformKind = "android" /\ runTarget = "emulator"

NextApp ==
    \/ StartAppAnalysis
    \/ AppStartTrafficCollection
    \/ AppStopTrafficCollection
    \/ AppStop
    \/ StartTrafficCollection
    \/ StopTrafficCollection
    \/ ProxyEmits

\* App analyses of every kind, the caller's own listeners and the interrupt.
NextSigint ==
    \/ StartAnyAppAnalysis
    \/ AppInstallApp
    \/ AppStop
    \/ UserListens
    \/ Sigint

\* App analyses with their traffic collections, and the interrupt.
NextInterrupt ==
    \/ StartAnyAppAnalysis
    \/ AppStartTrafficCollection
    \/ Sigint

InitResolve ==
    /\ platformKind = "android"
    /\ runTarget = "emulator"
    /\ targetOptions = "create"
    /\ InitSession
    /\ restartLimit = 1 /\ rebuildsLimit = 1 /\ managed = TRUE
    /\ InitHandle
    /\ emulatorList = {ForeignEmulator}

NextResolve == FromRunTarget

\* fromRunTarget() on a host that has, beside the user's own device, a copy of a
\* device of the library and the device of a key that begins with 'cyanoacrylate-'.
InitHost ==
    /\ platformKind = "android"
    /\ runTarget = "emulator"
    /\ targetOptions = "create"
    /\ InitSession
    /\ restartLimit = 1 /\ rebuildsLimit = 1 /\ managed = TRUE
    /\ InitHandle
    /\ emulatorList = {ForeignEmulator, CopiedEmulator, NestedKeyEmulator}

\* One AndroidEmulator handle after fromRunTarget(): its calls and its processes.
InitEmulator ==
    /\ platformKind = "android"
    /\ runTarget = "emulator"
    /\ restartLimit \in 0..MaxRestartLimit
    /\ rebuildsLimit \in 0..MaxRebuildsLimit
    /\ managed \in BOOLEAN
    /\ ~managed => rebuildsLimit = 1
    /\ targetOptions = IF managed THEN "create" ELSE "named"
    /\ InitSession
    /\ InitHandle
    /\ emulatorList = {ForeignEmulator}

NextEmulator ==
    \/ EmuStart
    \/ EmuForceRestart
    \/ EmuKill
    \/ EmuFail
    \/ KillReturns
    \/ RebuildContinues
    \/ Launch
    \/ ProcessCrashes
    \/ ProcessEnds
    \/ ProcessTerminates
    \/ ProcessSettles

\* The handle when the caller only calls start() and the processes crash.
NextCrashes ==
    \/ EmuStart
    \/ RebuildContinues
    \/ Launch
    \/ ProcessCrashes
    \/ ProcessFailsToLoad
    \/ ProcessEnds
    \/ ProcessTerminates
    \/ ProcessSettles

\* The handle when every process ends by the caller's calls only.
NextCaller ==
    \/ EmuStart
    \/ EmuForceRestart
    \/ EmuKill
    \/ EmuFail
    \/ KillReturns
    \/ RebuildContinues
    \/ Launch
    \/ ProcessTerminates
    \/ ProcessSettles

\* The handle when the caller calls start() and kill().
NextKill ==
    \/ EmuStart
    \/ EmuKill
    \/ KillReturns
    \/ RebuildContinues
    \/ Launch
    \/ ProcessCrashes
    \/ ProcessEnds
    \/ ProcessTerminates
    \/ ProcessSettles

\* The session on Android: traffic collections of every scope.
InitScope ==
    /\ Init
    /\ platformKind = "android"

NextScope ==
    \/ StartScopedTrafficCollection
    \/ StopTrafficCollection

vars == <<sessionVars, emulatorVars>>

Spec == Init /\ [][Next]_vars

SpecDevice == InitDevice /\ [][NextDevice]_vars

SpecEmulator == InitEmulator /\ [][NextEmulator]_vars

SpecCrashes == InitEmulator /\ [][NextCrashes]_vars

SpecCaller == InitEmulator /\ [][NextCaller]_vars

\* A signalled process exits, a promise settles and the timer of the grace period fires.
SpecKill ==
    /\ InitEmulator /\ [][NextKill]_vars
    /\ WF_vars(KillReturns) /\ WF_vars(ProcessTerminates) /\ WF_vars(ProcessSettles)

SpecScope == InitScope /\ [][NextScope]_vars

SpecResolve == InitResolve /\ [][NextResolve]_vars
SpecHost == InitHost /\ [][NextResolve]_vars

SpecApp == InitApp /\ [][NextApp]_vars

SpecSigint == Init /\ [][NextSigint]_vars

SpecInterrupt == Init /\ [][NextInterrupt]_vars

\* ------------------------------------------------------------------ claims
StartOps == {"startTrafficCollection", "appAnalysis.startTrafficCollection"}
StopOps == {"stopTrafficCollection", "appAnalysis.stopTrafficCollection"}

\* C1: a startTrafficCollection call (device-wide or app-scoped) made while a collection
\* is open fails with the usage error 'Cannot start new traffic collection...' and spawns
\* no proxy process; at every point at most one proxy process is alive.
C1_SingleFlight ==
    /\ [](Cardinality(LiveProxies) <= 1)
    /\ [][(/\ lastCall' # lastCall
           /\ lastCall'.op \in StartOps
           /\ trafficCollectionInProgress.inProgress)
            => (/\ lastCall'.outcome = "UsageStillRunning"
                /\ lastCall'.proxySpawns = 0
                /\ proxyProcs' = proxyProcs
                /\ trafficCollectionInProgress' = trafficCollectionInProgress)]_vars

\* C1 witness: an app-scoped start was refused while the proxy of the open collection runs.
C1_Witness ==
    /\ lastCall.op = "appAnalysis.startTrafficCollection"
    /\ lastCall.outcome = "UsageStillRunning"
    /\ Cardinality(LiveProxies) = 1
    /\ mitmproxyState.defined

\* C2: every stopTrafficCollection on an open collection, whatever its outcome, removes
\* the route (setProxy(null)) exactly once and the trust anchor exactly once.
C2_CleanupExactlyOnce ==
    (lastCall.op \in StopOps /\ lastCall.outcome # "UsageNotRunning")
        => (lastCall.routeRemovals = 1 /\ lastCall.caRemovals = 1)

\* C3: the session never reaches a state in which startTrafficCollection is refused as
\* 'still running' while stopTrafficCollection is refused as 'No traffic collection is
\* running'.
C3_NeverStuck ==
    ~(StartRefused /\ (~mitmproxyState.defined \/ ~trafficCollectionInProgress.inProgress))

\* C4: with restart limit R, a start() call made after R+1 crashes since the last
\* (re)build performs exactly one rebuild and then launches; a start() call made after at
\* most R crashes does not rebuild.
C4_RebuildAfterCrashes ==
    history.lastStart.outcome # "none" =>
        IF history.lastStart.overLimitAtEntry
        THEN history.lastStart.rebuilt = 1 /\ history.lastStart.outcome = "launched"
        ELSE history.lastStart.rebuilt = 0

\* C4 (amended): a start() call that finds more than R failed starts recorded since the
\* last (re)build never simply relaunches: it performs exactly one rebuild and then
\* launches, or it fails without rebuilding and without launching; a start() call that
\* finds at most R recorded failed starts launches, or finds the emulator running,
\* without rebuilding.
C4_RebuildOrFail ==
    history.lastStart.outcome # "none" =>
        IF history.lastStart.overLimitAtEntry
        THEN \/ history.lastStart.rebuilt = 1 /\ history.lastStart.outcome = "launched"
             \/ history.lastStart.rebuilt = 0
                    /\ history.lastStart.outcome \in {"Error", "EmulatorError"}
        ELSE history.lastStart.rebuilt = 0
                /\ history.lastStart.outcome \in {"launched", "noop"}

\* C4 witness: with restart limit 1, two crashes were recorded and the start() call that
\* followed rebuilt once and launched.
C4_Witness ==
    /\ restartLimit = 1
    /\ history.crashLoop
    /\ history.lastStart.overLimitAtEntry
    /\ history.lastStart.rebuilt = 1
    /\ history.lastStart.outcome = "launched"
    /\ history.launches = 3

\* C5: the number of rebuilds of one AndroidEmulator never exceeds its rebuild limit.
C5_RebuildsWithinLimit == androidEmulator.rebuilds <= rebuildsLimit

\* C6: if every launch crashes, then after more than (R+1)*(B+1) failures no further
\* process is launched: at most (R+1)*(B+1)+1 processes are ever launched.
C6_FiniteLaunches ==
    history.crashLoop => history.launches <= (restartLimit + 1) * (rebuildsLimit + 1) + 1

\* C7: at every point at most one process of the handle is alive.
C7_OneLiveProcess ==
    Cardinality({p \in 1..MaxLaunches : emulatorProcs[p].st = "running"}) <= 1

\* C8: an ensureDevice() call that finds the emulator it started earlier terminated
\* launches the emulator again before it waits for the device.
C8_RelaunchAfterExit ==
    (lastCall.op \in {"ensureDevice", "ensureDevice.killExisting"} /\ lastCall.deadAtEntry)
        => (lastCall.emuLaunches = 1 /\ lastCall.liveEmuAtWait = 1)

\* C9: ensureDevice({killExisting: true}) on an emulator the library started launches a
\* new emulator process after the kill, so exactly one fresh process runs when the call
\* waits for the device.
C9_KillExistingRestarts ==
    (lastCall.op = "ensureDevice.killExisting" /\ lastCall.hadEmulator)
        => (lastCall.emuLaunches = 1 /\ lastCall.liveEmuAtWait = 1)

\* C10: whenever startTrafficCollection resolves successfully, the device has been
\* instructed to route through the proxy (setProxy was called and completed).
C10_RouteBeforeActive ==
    (lastCall.op \in StartOps /\ lastCall.outcome = "ok") => lastCall.routeSets = 1

\* Position of effect e in the trace tr, 0 if it was not performed.
Position(tr, e) == IF \E i \in 1..Len(tr) : tr[i] = e
                   THEN CHOOSE i \in 1..Len(tr) : tr[i] = e
                   ELSE 0

\* C11: in every call that spawns the proxy the trust anchor installation has completed
\* before the spawn, so the trust anchor is on the device whenever a proxy is alive; the
\* trust anchor is removed only by stopTrafficCollection, after the proxy has closed.
C11_AnchorAroundProxy ==
    /\ [](LiveProxies # {} => caInstalled)
    /\ [](Position(lastCall.trace, "spawn") > 0 =>
             /\ Position(lastCall.trace, "installCertificateAuthority") > 0
             /\ Position(lastCall.trace, "installCertificateAuthority")
                    < Position(lastCall.trace, "spawn"))
    /\ [][(caInstalled /\ ~caInstalled') =>
             /\ lastCall'.op \in StopOps
             /\ proxyProcs'[mitmproxyState.proc] = "closed"
             /\ Position(lastCall'.trace, "close") > 0
             /\ Position(lastCall'.trace, "close")
                    < Position(lastCall'.trace, "removeCertificateAuthority")]_vars

\* C11 witness: a collection was started and stopped; the stop removed the trust anchor
\* after the proxy had closed.
C11_Witness ==
    /\ lastCall.op \in StopOps
    /\ lastCall.outcome = "ok"
    /\ ~caInstalled
    /\ Position(lastCall.trace, "removeCertificateAuthority") = 4
    /\ \E p \in 1..MaxProxies : proxyProcs[p] = "closed"

\* The app ids of a joined list: the pieces that are no separators.
Split(value) == SelectSeq(value, LAMBDA piece : piece # ", ")

\* Key k of the Interface section sent to the device is as the proxy reported it.
Untouched(sent, reported, k) ==
    /\ (k \in DOMAIN sent) <=> (k \in DOMAIN reported)
    /\ k \in DOMAIN reported => sent[k] = reported[k]

\* C12: the tunnel configuration passed to the device has, for an allow-list, exactly
\* the listed ids as IncludedApplications and ExcludedApplications as the proxy reported
\* it; for a deny-list the listed ids as ExcludedApplications and IncludedApplications
\* untouched; for all-apps or no options both as reported.
C12_ScopeTranslation ==
    (lastCall.op \in StartOps /\ lastCall.routeSets = 1 /\ platformKind = "android") =>
        LET sent == deviceProxy.iface
            reported == mitmproxyState.wireguardConf.iface
            scope == trafficCollectionInProgress
        IN  /\ scope.mode = "allowlist" =>
                  /\ "IncludedApplications" \in DOMAIN sent
                  /\ Split(sent["IncludedApplications"]) = scope.apps
                  /\ Untouched(sent, reported, "ExcludedApplications")
            /\ scope.mode = "denylist" =>
                  /\ "ExcludedApplications" \in DOMAIN sent
                  /\ Split(sent["ExcludedApplications"]) = scope.apps
                  /\ Untouched(sent, reported, "IncludedApplications")
            /\ scope.mode = "all-apps" => sent = reported
            /\ scope.mode \in {"allowlist", "denylist", "all-apps"}

\* C12 witness: an allow-list of two apps was translated while the proxy reported
\* excluded applications of its own.
C12_Witness ==
    /\ lastCall.op = "startTrafficCollection"
    /\ lastCall.routeSets = 1
    /\ trafficCollectionInProgress.mode = "allowlist"
    /\ Len(trafficCollectionInProgress.apps) = 2
    /\ "ExcludedApplications" \in DOMAIN mitmproxyState.wireguardConf.iface
    /\ deviceProxy.iface["ExcludedApplications"] = <<"app.b">>

\* C13: stop() on a session that has neither a proxy nor an emulator of its own (nothing
\* was ever started) does not throw and neither spawns nor kills a process.
C13_StopOnFreshSession ==
    [][(/\ lastCall'.op = "stop"
        /\ lastCall' # lastCall
        /\ ~mitmproxyState.defined
        /\ ~emulator.defined)
        => (/\ lastCall'.outcome = "ok"
            /\ lastCall'.proxyKills = 0 /\ lastCall'.emuKills = 0
            /\ lastCall'.proxySpawns = 0 /\ lastCall'.emuLaunches = 0
            /\ proxyProcs' = proxyProcs
            /\ emuProcs' = emuProcs)]_vars

\* C13 witness: stop() was the first call on an emulator target and no process exists.
C13_Witness ==
    /\ lastCall.op = "stop"
    /\ lastCall.outcome = "ok"
    /\ runTarget = "emulator"
    /\ ~mitmproxyState.defined /\ ~emulator.defined
    /\ \A p \in 1..MaxProxies : proxyProcs[p] = "unspawned"
    /\ \A p \in 1..MaxEmuProcs : emuProcs[p] = "unspawned"

\* C14: one resetDevice() runs the platform reset at most twice and the forced
\* ensureDevice({ killExisting: true }) at most once; it escalates only when the first
\* reset timed out; another error of the first reset is rethrown without escalation;
\* a timeout of the forced ensure or of the second reset is the outcome of the call;
\* the forced ensure runs no platform reset of its own.
C14_BoundedEscalation ==
    lastCall.op = "resetDevice" =>
        /\ lastCall.platformResets <= 2
        /\ lastCall.forcedEnsures <= 1
        /\ lastCall.platformResets
               = Cardinality({i \in 1..Len(lastCall.trace) : lastCall.trace[i] = "resetDevice"})
        /\ lastCall.forcedEnsures = 1 => lastCall.errors[1] = "TimeoutError"
        /\ (Len(lastCall.errors) >= 1 /\ lastCall.errors[1] = "Error") =>
               /\ lastCall.outcome = "Error"
               /\ lastCall.forcedEnsures = 0
               /\ lastCall.platformResets = 1
        /\ (Len(lastCall.errors) >= 2 /\ lastCall.errors[Len(lastCall.errors)] = "TimeoutError") =>
               lastCall.outcome = "TimeoutError"
        /\ lastCall.platformResets = 2 =>
               lastCall.trace = <<"resetDevice", "ensureDevice", "resetDevice">>

\* C14 witness: the first reset timed out, the forced ensure succeeded and the second
\* reset timed out as well.
C14_Witness ==
    /\ lastCall.op = "resetDevice"
    /\ lastCall.errors = <<"TimeoutError", "ok", "TimeoutError">>
    /\ lastCall.platformResets = 2
    /\ lastCall.forcedEnsures = 1
    /\ lastCall.outcome = "TimeoutError"

SameConfiguration(a, b) ==
    /\ a.key = b.key
    /\ a.emulatorOptions = b.emulatorOptions
    /\ a.honeyData = b.honeyData
    /\ {a.capabilities[i] : i \in 1..Len(a.capabilities)}
         = {b.capabilities[i] : i \in 1..Len(b.capabilities)}

C16_FingerprintDeterminism ==
    [][(FromRunTarget /\ resolved.defined) =>
        /\ SameConfiguration(resolved, resolved') =>
               /\ resolved'.name = resolved.name
               /\ resolved'.reused = {resolved.name}
               /\ resolved'.created = {}
        /\ ~SameConfiguration(resolved, resolved') =>
               /\ resolved'.name # resolved.name
               /\ \A n \in resolved'.reused : n.hash = resolved'.name.hash]_vars

\* A step in which appAnalysis.stopTrafficCollection() stopped the open collection.
AppCollectionStopped ==
    /\ lastCall'.op = "appAnalysis.stopTrafficCollection"
    /\ lastCall'.outcome = "ok"
    /\ mitmproxyState.defined
    /\ ~mitmproxyState'.defined

\* C17: the result of an app analysis names the analysed app, and its traffic map gets
\* exactly one entry for each app-scoped collection that was started and stopped, under
\* the name given at the start of that collection (or the timestamp taken then); it has
\* no other entries and loses none.
C17_OneEntryPerCollection ==
    [][/\ (AppCollectionStopped /\ appAnalysis.scoped # NoName) =>
            lastCall'.stored = <<appAnalysis.scoped>>
       /\ lastCall'.stored # <<>> => AppCollectionStopped
       /\ (lastCall'.op = "appAnalysis.startTrafficCollection" /\ lastCall'.proxySpawns = 1) =>
            trafficCollectionInProgress'.apps = <<appAnalysis'.app>>
       /\ lastCall'.op = "appAnalysis.stop" => appAnalysis'.app = appAnalysis.app]_vars

\* C18: every event that the proxy writes is appended, in the order of emission, to the
\* event list of the collection, whatever the waiters do; and the events of an app's
\* collection are in mitmproxyEvents of the app's result once the collection is stopped.
C18_EventsRecorded ==
    /\ [](mitmproxyState.events = mitmproxyState.emitted)
    /\ [][(AppCollectionStopped /\ appAnalysis.scoped # NoName) =>
            \A i \in 1..Len(mitmproxyState.events) :
                \E j \in 1..Len(appAnalysis'.mitmproxyEvents) :
                    appAnalysis'.mitmproxyEvents[j] = mitmproxyState.events[i]]_vars

\* C20: the error of a start() that fails because the restart and rebuild limits are
\* exhausted is an EmulatorError with the console output, the emulator command and the
\* signal of the failed process.
C20_TerminalErrorContext ==
    history.lastStart.outcome = "EmulatorError" =>
        /\ history.lastStart.error.name = "EmulatorError"
        /\ history.lastStart.error.consoleOutput # "undefined"
        /\ history.lastStart.error.emulatorCommand # "undefined"
        /\ history.lastStart.error.signal # "undefined"

\* C19: a startTrafficCollection() whose proxy has not reported 'running' and the routing
\* configuration, with the route applied, fails with a TimeoutError; an error that a
\* startup step raised is the outcome of the call and no timeout.
C19_TimeoutOrStepError ==
    LET reported(status) ==
            \E i \in 1..Len(mitmproxyState.events) : mitmproxyState.events[i] = status
        ready == /\ mitmproxyState.defined
                 /\ reported("running") /\ reported("proxyChanged")
                 /\ lastCall.routeSets = 1
    IN
    (lastCall.op \in StartOps /\ lastCall.outcome # "UsageStillRunning") =>
        /\ lastCall.errors # <<>> => lastCall.outcome = lastCall.errors[1]
        /\ (lastCall.errors = <<>> /\ ~ready) => lastCall.outcome = "TimeoutError"
        /\ lastCall.outcome = "TimeoutError" => ~ready

\* The number of listeners of 'SIGINT' that the library registered.
LibraryListeners ==
    Cardinality({i \in 1..Len(process.sigint) : process.sigint[i] = "library"})

\* What C21 says of startAppAnalysis(), of the listeners after every step and of an
\* analysis with noSigint.
C21_Installs ==
    /\ LibraryListeners' <= 1
    /\ StartAnyAppAnalysis =>
            IF lastCall'.outcome = "ok" /\ ~appAnalysis'.noSigint
            THEN LibraryListeners' = 1
            ELSE process' = process
    /\ (AppStop /\ appAnalysis.noSigint) => process' = process

C22_CleanupBeforeExit ==
    [][(Sigint /\ LibraryListeners = 1 /\ appAnalysis.active) =>
        /\ process'.exited
        /\ Position(lastCall'.trace, "killProcess") > 0
        /\ Position(lastCall'.trace, "killProcess") < Position(lastCall'.trace, "process.exit")
        /\ mitmproxyState.defined => proxyProcs'[mitmproxyState.proc] # "alive"]_vars

\* C23: startAppAnalysis fails, installing no app and no handler, for an id that is not
\* installed and for split files on a platform other than Android; installApp() of an
\* analysis that was started with an id fails with 'Installing apps by ID is not
\* supported.' and does not call the platform's installApp.
C23_FatalUsageErrors ==
    [][/\ (/\ StartAnyAppAnalysis
           /\ \/ lastCall'.input = <<"id", "notInstalled">>
              \/ lastCall'.input[1] = "files" /\ platformKind # "android")
            => (/\ lastCall'.outcome = "Error"
                /\ Position(lastCall'.trace, "installApp") = 0
                /\ Position(lastCall'.trace, "uninstallApp") = 0
                /\ Position(lastCall'.trace, "on") = 0
                /\ process' = process
                /\ appAnalysis' = appAnalysis)
       /\ (AppInstallApp /\ appAnalysis.appIdOrPath = "id")
            => (/\ lastCall'.outcome = "Error"
                /\ lastCall'.errors = <<"Installing apps by ID is not supported.">>
                /\ Position(lastCall'.trace, "installApp") = 0)]_vars

\* C23 witness: installApp() was refused on an analysis of an installed app that was
\* started with its id.
C23_Witness ==
    /\ lastCall.op = "appAnalysis.installApp"
    /\ lastCall.outcome = "Error"
    /\ appAnalysis.active
    /\ appAnalysis.appIdOrPath = "id"
    /\ appAnalysis.appIdProvided

\* C25: stopTrafficCollection() returns or fails for every behaviour of the proxy
\* process, also when the proxy process had exited and closed its streams before the
\* call; it never waits forever for the 'close' event.
C25_StopReturns ==
    lastCall.op \in StopOps => lastCall.outcome # "hangs"

\* The process of the handle runs and has been sent no signal.
Running(e) ==
    IF e.proc = 0 THEN FALSE
    ELSE emulatorProcs[e.proc].st = "running" /\ emulatorProcs[e.proc].sig = "none"

\* A step in which the promise of process p settles, and the signal or the way by which
\* the process ended.
Settles(p) ==
    /\ emulatorProcs[p].st \in {"running", "exited"}
    /\ emulatorProcs'[p].st = "settled"

\* failedStarts, lastError and the abort signal are left as they are.
NothingRecorded ==
    /\ androidEmulator'.failedStarts = androidEmulator.failedStarts
    /\ androidEmulator'.lastError = androidEmulator.lastError
    /\ androidEmulator'.abort = androidEmulator.abort

C26_RequestedKillNotCounted ==
    [][\A p \in 1..MaxLaunches :
         (Settles(p) /\ emulatorProcs[p].killed) => NothingRecorded]_vars

\* C27: when the process ends by the intentional termination signal, failedStarts,
\* lastError and the abort signal are left unchanged; when it ends in any other way,
\* failedStarts increases by one, lastError is that failure and the abort signal is
\* aborted with an EmulatorError.
C27_CrashDetection ==
    [][\A p \in 1..MaxLaunches :
         Settles(p) =>
            IF emulatorProcs[p].sig = "SIGTERM" THEN NothingRecorded
            ELSE /\ androidEmulator'.failedStarts = androidEmulator.failedStarts + 1
                 /\ androidEmulator'.lastError = ExecaError(p, emulatorProcs[p].sig)
                 /\ androidEmulator'.abort = "EmulatorError"]_vars

\* C27 (amended): as C27, but a process that exits with code 0 is no failure and leaves
\* the three unchanged as well; after a failure the abort signal is aborted, with an
\* EmulatorError unless it had been aborted before, in which case it keeps its reason.
C27_FailureDetection ==
    [][\A p \in 1..MaxLaunches :
         Settles(p) =>
            IF emulatorProcs[p].sig \in {"SIGTERM", "exit0"} THEN NothingRecorded
            ELSE /\ androidEmulator'.failedStarts = androidEmulator.failedStarts + 1
                 /\ androidEmulator'.lastError = ExecaError(p, emulatorProcs[p].sig)
                 /\ androidEmulator'.abort # "none"
                 /\ androidEmulator'.abort =
                        (IF androidEmulator.abort = "none" THEN "EmulatorError"
                         ELSE androidEmulator.abort)]_vars

\* C27 witness: the first process of the handle crashed and its failure is recorded.
C27_Witness ==
    /\ androidEmulator.failedStarts = 1
    /\ androidEmulator.lastError = ExecaError(1, "crash")
    /\ androidEmulator.abort = "EmulatorError"
    /\ emulatorProcs[1].st = "settled"

\* C28: failedStarts is set to zero only by a rebuild() that succeeds; no other
\* operation (a start that launches, kill, a forced restart, fail) decreases it.
C28_ResetOnlyByRebuild ==
    [][androidEmulator'.failedStarts < androidEmulator.failedStarts =>
        /\ androidEmulator'.failedStarts = 0
        /\ androidEmulator'.rebuilds = androidEmulator.rebuilds + 1
        /\ \E c \in 0..MaxScheduled :
              calls[c].pc = "rebuild" /\ calls'[c].rebuilt = calls[c].rebuilt + 1]_vars

\* C28 witness: a rebuild has just set failedStarts, which fail() had raised above the
\* restart limit, to zero.
C28_Witness ==
    /\ androidEmulator.failedStarts = 0
    /\ androidEmulator.rebuilds = 1
    /\ androidEmulator.lastError = FailError
    /\ calls[0].rebuilt = 1
    /\ calls[0].pc = "launch"

\* C29: start({ forceRestart: true }) on a handle whose process runs sends the kill to
\* that process, and the new process is launched only after it has exited: the restart
\* listener stays on the process until its exit, and the exit starts one start().
C29_ForcedRestart ==
    [][/\ (/\ EmuForceRestart
           /\ Running(androidEmulator)
           /\ ~TooManyFailedStarts(androidEmulator.failedStarts, restartLimit))
            => (/\ emulatorProcs'[androidEmulator.proc].killed
                /\ emulatorProcs'[androidEmulator.proc].restartOnExit = 1
                /\ history'.launches = history.launches)
       /\ \A p \in 1..MaxLaunches :
            (/\ emulatorProcs[p].restartOnExit > 0
             /\ emulatorProcs'[p].restartOnExit = 0
             /\ FreeScheduled(World) # {})
                => (/\ emulatorProcs[p].st = "running"
                    /\ emulatorProcs'[p].st # "running"
                    /\ \E c \in FreeScheduled(World) :
                          \/ calls'[c].op = "start"
                          \/ history'.lastStart.outcome # "none")]_vars

\* C30: start() without forceRestart on a handle whose process runs and has not exited
\* launches nothing and leaves every field of the handle unchanged.
C30_StartOnRunningIsNoop ==
    [][(EmuStart /\ Running(androidEmulator) /\ ~androidEmulator.hasExited)
        => (/\ androidEmulator' = androidEmulator
            /\ emulatorProcs' = emulatorProcs
            /\ history'.launches = history.launches
            /\ history'.lastStart.outcome = "noop"
            /\ calls'[0].pc = "idle")]_vars

\* C31: an app-scoped startTrafficCollection that is refused because a collection is
\* open leaves the session and the app analysis unchanged; the name under which the open
\* collection will be stored is not replaced by the name of the refused call.
C31_RefusedStartKeepsName ==
    [][(AppStartTrafficCollection /\ StartRefused /\ appAnalysis.scoped # NoName) =>
        /\ lastCall'.outcome = "UsageStillRunning"
        /\ appAnalysis'.inProgressTrafficCollectionName =
                appAnalysis.inProgressTrafficCollectionName
        /\ UNCHANGED <<trafficCollectionInProgress, mitmproxyState, proxyProcs,
                       caInstalled, deviceProxy>>]_vars

C33_SnapshotOnce ==
    [][/\ EnsureDevice =>
            LET made == lastCall'.trace
                captures == Position(made, "snapshotDeviceState") > 0
            IN
            /\ captures =>
                /\ emulator'.createdByLib
                /\ ~emulator.resetSnapshotName
                /\ made[Len(made) - 1] = "ensureDevice"
                /\ made[Len(made)] = "snapshotDeviceState"
            /\ emulator'.resetSnapshotName # emulator.resetSnapshotName =>
                (captures /\ lastCall'.outcome = "ok")
            /\ (/\ lastCall'.op = "ensureDevice"
                /\ emulator.resetSnapshotName
                /\ Position(made, "ensureDevice") > 0) =>
                    /\ Position(made, "resetDevice") > 0
                    /\ Position(made, "resetDevice") < Position(made, "ensureDevice")
       /\ emulator.resetSnapshotName => emulator'.resetSnapshotName]_vars

\* C33 witness: an ensureDevice() on a library-created emulator whose snapshot is
\* remembered has reset the device and then ensured it, without a new capture.
C33_Witness ==
    /\ lastCall.op = "ensureDevice"
    /\ lastCall.outcome = "ok"
    /\ emulator.createdByLib
    /\ emulator.resetSnapshotName
    /\ lastCall.trace = <<"waitForDevice", "resetDevice", "ensureDevice">>

\* A step in which the rebuild() of invocation c has succeeded.
RebuildSucceeds(c) == calls[c].pc = "rebuild" /\ calls'[c].rebuilt = calls[c].rebuilt + 1

\* C34: a rebuild() that succeeds has killed the process of the handle, deletes the
\* virtual device and creates it again, sets failedStarts to 0, increases rebuilds by
\* one, clears the process slot and drops the remembered snapshot; on a handle without
\* creation configuration rebuild() fails, kills nothing and deletes nothing.
C34_Rebuild ==
    [][/\ \A c \in 0..MaxScheduled :
            RebuildSucceeds(c) =>
                /\ managed
                /\ history.device
                /\ history'.effects = <<"deleteEmulator", "createEmulator">>
                /\ history'.device
                /\ calls[c].target # 0 => emulatorProcs'[calls[c].target].st # "running"
                /\ androidEmulator'.failedStarts = 0
                /\ androidEmulator'.rebuilds = androidEmulator.rebuilds + 1
                /\ androidEmulator'.proc = 0
                /\ ~androidEmulator'.resetSnapshotName
       /\ ~managed =>
            /\ history'.effects = <<>>
            /\ history'.device
            /\ androidEmulator'.rebuilds = androidEmulator.rebuilds
            /\ (/\ EmuStart
                /\ TooManyFailedStarts(androidEmulator.failedStarts, restartLimit)
                /\ RebuildAllowed(androidEmulator.rebuilds, rebuildsLimit)) =>
                    /\ history'.lastStart.outcome = "Error"
                    /\ emulatorProcs' = emulatorProcs
                    /\ androidEmulator' = androidEmulator]_vars

\* C34 witness: the rebuild of a handle that had launched a process and remembered a
\* snapshot has just succeeded.
C34_Witness ==
    /\ history.effects = <<"deleteEmulator", "createEmulator">>
    /\ androidEmulator.rebuilds = 1
    /\ androidEmulator.failedStarts = 0
    /\ androidEmulator.proc = 0
    /\ ~androidEmulator.resetSnapshotName
    /\ history.launches > 0
    /\ calls[0].target # 0

\* A step in which the rebuild() of invocation c fails in deleteEmulator or
\* createEmulator.
RebuildFails(c) ==
    /\ calls[c].pc = "rebuild"
    /\ calls'[c].pc = "idle"
    /\ history'.lastStart.outcome = "Error"

\* C35: a rebuild() that fails while it deletes or recreates the virtual device leaves
\* failedStarts, rebuilds and the remembered snapshot unchanged; a later start() attempts
\* the rebuild again, and no process is launched for a virtual device that no longer
\* exists: every start() that is called while the device is missing goes into rebuild()
\* or, with the rebuild limit reached, fails.
C35_FailedRebuild ==
    [][/\ \A c \in 0..MaxScheduled :
            RebuildFails(c) =>
                /\ androidEmulator'.failedStarts = androidEmulator.failedStarts
                /\ androidEmulator'.rebuilds = androidEmulator.rebuilds
                /\ androidEmulator'.resetSnapshotName = androidEmulator.resetSnapshotName
       /\ ((EmuStart \/ EmuForceRestart) /\ ~history.device) =>
            IF RebuildAllowed(androidEmulator.rebuilds, rebuildsLimit)
            THEN calls'[0].pc = "rebuild"
            ELSE calls'[0].pc = "idle" /\ history'.lastStart.outcome = "EmulatorError"
       /\ \A c \in 1..MaxScheduled :
            (calls[c].pc = "idle" /\ calls'[c].pc # "idle" /\ ~history.device) =>
                calls'[c].pc = "rebuild"]_vars


\* C36: for a handle that the library did not create (no creation configuration), a
\* start() that finds failedStarts above the restart limit fails with an EmulatorError,
\* and no virtual device is deleted.
C36_UnmanagedOverLimit ==
    [][(/\ EmuStart \/ EmuForceRestart
        /\ ~managed
        /\ TooManyFailedStarts(androidEmulator.failedStarts, restartLimit)) =>
            /\ calls'[0].pc = "idle"
            /\ history'.lastStart.outcome = "EmulatorError"
            /\ history'.effects = <<>>
            /\ history'.device]_vars


\* C37: the failure callback of an emulator process acts on that process only: when it
\* runs, no process that was launched later for the handle is sent a signal, and if a
\* later launch has happened the abort signal of the handle is left as it is.
C37_CallbackOwnProcess ==
    [][\A p \in 1..MaxLaunches :
         (/\ ProcessSettles
          /\ emulatorProcs[p].st = "exited"
          /\ emulatorProcs'[p].st = "settled") =>
            /\ \A q \in (p + 1)..MaxLaunches : emulatorProcs'[q] = emulatorProcs[q]
            /\ androidEmulator.proc > p =>
                    androidEmulator'.abort = androidEmulator.abort]_vars


\* C38: fromRunTarget() for a managed emulator deletes a device only if its name starts
\* with 'cyanoacrylate-', has the key of the call and another digest or headless marker
\* than the current name; when it succeeds, the devices of the key are exactly the one
\* with the current name.
C38_DeletesOnlyStaleOfKey ==
    [][FromRunTarget =>
        /\ \A n \in emulatorList \ emulatorList' :
                /\ n.prefix = "cyanoacrylate-"
                /\ n.key = resolved'.key
                /\ n.hash # resolved'.name.hash \/ n.suffix # resolved'.name.suffix
        /\ resolved'.outcome = "ok" =>
                {n \in emulatorList' : /\ n.prefix = "cyanoacrylate-"
                                        /\ n.key = resolved'.key
                                        /\ n.hash > 0} = {resolved'.name}]_vars


\* C39: a startAppAnalysis call that ends in an error leaves the apps installed on the
\* device as they were; in particular the call with an app id and resetApp fails
\* without uninstalling the app.
C39_FailedStartKeepsApps ==
    [][(StartAnyAppAnalysis /\ lastCall'.outcome = "Error") =>
            /\ lastCall'.uninstalled = <<>>
            /\ lastCall'.installed = <<>>]_vars


\* The failure callback of process p runs in this step, and the output of p includes
\* both phrases of a snapshot that requires a missing feature.
SnapshotCallback(p) ==
    /\ emulatorProcs[p].st = "exited"
    /\ emulatorProcs'[p].st = "settled"
    /\ emulatorProcs[p].stdout = SnapshotPhrases

\* C40: when the process fails with output that shows that the snapshot could not be
\* loaded because it requires a missing feature, the reason of the abort signal after
\* the failure callback is the dedicated 'Loading the emulator state failed' error, not
\* the error made from the process failure.
C40_SnapshotLoadReason ==
    [][\A p \in 1..MaxLaunches :
         SnapshotCallback(p) => androidEmulator'.abort = "LoadingFailed"]_vars

====
